---------------------------- MODULE Spec2Model ----------------------------
(***************************************************************************)
(* A model of the GEARBox.Factorio picture and icon processors.            *)
(*                                                                         *)
(* A pixel is a pair <<c, a>>: c stands for the colour channels of an      *)
(* Rgba32 (one byte; R, G and B are treated alike by every operation       *)
(* modelled here) and a is the alpha byte.  An image is a record           *)
(* [w, h, px] with px a function from <<x, y>> to pixels, as Image<Rgba32> *)
(* indexed by image[x, y].                                                 *)
(*                                                                         *)
(* The sizes ResizeWithAspect computes, the image scale and the alignment   *)
(* offsets are computed in IEEE doubles, each operation rounded to 53      *)
(* significant bits.  The numbers a command line gives (the scale, the     *)
(* anchors) are kept as fractions <<n, d>> with d > 0 and become the       *)
(* nearest double where the code computes with them.  The resampler and    *)
(* the blur                                                                *)
(* are computed with their kernels as exact integers over a common         *)
(* divisor, and a channel becomes a byte by rounding to nearest.           *)
(***************************************************************************)
EXTENDS Integers, Sequences, FiniteSets, TLC

VARIABLES
    \* --- TrimWhitespace harness
    image,        \* the buffer handed to TrimWhitespace (mutated in place)
    trimInput,    \* the buffer as it was first loaded
    trimPrev,     \* the buffer as it was before the latest call
    trimCalls,    \* number of TrimWhitespace calls made
    trimErr,      \* "none" or the exception the latest call threw
    \* --- ResizeWithAspect harness
    rzArgs,       \* the call: [kind, targetSize, scale, anchor]
    rzInput,      \* the buffer as it was handed to ResizeWithAspect
    rzImage,      \* the buffer handed to ResizeWithAspect (mutated in place)
    rzOut,        \* what the call computed and returned
    rzPc,         \* "call" before the call, "done" after it
    \* --- ProcessTextureMultiple
    pmFiles,      \* textures: the decoded content of each texture file, in order
    pmShadowFile, \* shadowTexture: the decoded content of the shadow file, or Null
    pmScale,      \* scale
    images,       \* the list images
    shadowImage,  \* shadowImage, or Null
    imageScale,   \* imageScale
    spriteSheet,  \* spriteSheet, or Null before it is created
    pmSaved,      \* the files written so far, in order: [file, image]
    pmDisposed,   \* the buffers disposed so far
    pmErr,        \* "none" or the exception that left the try block
    pmPc,         \* position in ProcessTextureMultiple
    \* --- the environment the program runs in
    drawOutsideThrows, \* the ImageSharp build: whether DrawImage throws when
                       \* the image covers nothing
    currentCulture,    \* CultureInfo.CurrentCulture, which string.ToLower() reads
    \* --- the --alignment option and Program.ProcessAlignment(string)
    paGiven,      \* whether the command line holds an --alignment token
    paOriginal,   \* the request as first written
    paRequest,    \* the token's value: the request handed to ProcessAlignment
    paEdits,      \* the edits made: [n, kinds], their number and their kinds
    paOut,        \* what the option's parser gave for paRequest: [err, anchor]
    paOrigOut,    \* what it gave for paOriginal
    paPc,         \* "edit" while the request is written, "done" once parsed
    \* --- Processor.SuggestAlignment and the offsets it prints
    ofImage,      \* image: its dimensions [w, h]
    ofShadow,     \* shadowImage: its dimensions [w, h], or Null
    ofAlignment,  \* alignment
    ofOther,      \* a second image and alignment: [w, h, x, y]
    ofPrinted,    \* the offsets SuggestAlignment printed: [offset, shadowOffset]
    ofAgain,      \* the offsets of the calls made with values of ofOther
    ofPc,         \* "call", "again", "done"
    \* --- ProcessTextureSingle
    psFile,       \* texture: the decoded content of the texture file
    psShadowFile, \* shadowTexture: the decoded content of the shadow file, or Null
    psScale,      \* scale
    psAlignment,  \* alignment
    psImage,      \* image, or Null before it is loaded
    psShadowImage,\* shadowImage, or Null
    psImageScale, \* imageScale
    psSuggested,  \* [image, shadowImage] as handed to SuggestAlignment, and
                  \* the offsets it printed
    psSaved,      \* the files written so far, in order: [file, image]
    psDisposed,   \* the buffers disposed so far
    psErr,        \* "none" or the exception that left the method
    psPc,         \* position in ProcessTextureSingle
    \* --- Program.Process of the icon processor
    icFile,       \* the decoded content of the texture file
    icImage,      \* image, or Null before it is loaded
    icTrimmed,    \* image as TrimWhitespace left it, or Null
    icon,         \* icon, the atlas, or Null before it is created
    icClone,      \* clone, or Null
    icI,          \* i, the index of the next resolution
    icLayers,     \* what each iteration did: [source, pad, targetSize, tile, drawX, drawY]
    icLog,        \* the operations run so far, in order
    icDisposed,   \* the buffers disposed so far, in order
    icSaved,      \* the files written so far
    icErr,        \* "none" or the exception that left Process
    icPc,         \* position in Process
    \* --- the ApplyDropShadow harness
    dsInput,      \* the buffer as it was handed to ApplyDropShadow
    dsArgs,       \* the call: [offsetX, offsetY, blurRadius, shadowColor]
    dsImage,      \* image, the buffer handed to ApplyDropShadow
    dsLayer,      \* shadowLayer, or Null before it is created
    dsX,          \* x of the first pair of loops
    dsY,          \* y of the first pair of loops
    dsTouched,    \* the positions at which a buffer was indexed so far
    dsWrites,     \* the writes made to shadowLayer, in order
    dsPc,         \* position in ApplyDropShadow
    \* --- Program.Process of the picture processor
    prTextures,   \* the files given to --textures, in order
    prShadowOption,\* --shadow: [given, file], file Null when no value follows it
    prVariants,   \* the value of --variants
    prScale,      \* the value of --scale
    prExists,     \* the companion files that exist
    prList,       \* textures, the list Process works on
    prShadow,     \* shadow, or Null
    prErr,        \* "none", the validator's error or the exception Process threw
    prPc          \* position in Process

trimVars == <<image, trimInput, trimPrev, trimCalls, trimErr>>
rzVars == <<rzArgs, rzInput, rzImage, rzOut, rzPc>>

pmVars == <<pmFiles, pmShadowFile, pmScale, images, shadowImage, imageScale,
            spriteSheet, pmSaved, pmDisposed, pmErr, pmPc>>

paVars == <<paGiven, paOriginal, paRequest, paEdits, paOut, paOrigOut, paPc>>

ofVars == <<ofImage, ofShadow, ofAlignment, ofOther, ofPrinted, ofAgain, ofPc>>

psVars == <<psFile, psShadowFile, psScale, psAlignment, psImage, psShadowImage,
            psImageScale, psSuggested, psSaved, psDisposed, psErr, psPc>>

icVars == <<icFile, icImage, icTrimmed, icon, icClone, icI, icLayers, icLog,
            icDisposed, icSaved, icErr, icPc>>

dsVars == <<dsInput, dsArgs, dsImage, dsLayer, dsX, dsY, dsTouched, dsWrites, dsPc>>

prVars == <<prTextures, prShadowOption, prVariants, prScale, prExists, prList, prShadow, prErr, prPc>>

envVars == <<drawOutsideThrows, currentCulture>>

vars == <<trimVars, rzVars, pmVars, envVars, paVars, ofVars, psVars, icVars, dsVars, prVars>>

\* what the actions of one part leave alone besides their own variables
trimForeign == <<rzVars, pmVars, envVars, paVars, ofVars, psVars, icVars, dsVars, prVars>>
rzForeign == <<trimVars, pmVars, envVars, paVars, ofVars, psVars, icVars, dsVars, prVars>>
pmForeign == <<trimVars, rzVars, envVars, paVars, ofVars, psVars, icVars, dsVars, prVars>>
paForeign == <<trimVars, rzVars, pmVars, envVars, ofVars, psVars, icVars, dsVars, prVars>>
ofForeign == <<trimVars, rzVars, pmVars, envVars, paVars, psVars, icVars, dsVars, prVars>>
psForeign == <<trimVars, rzVars, pmVars, envVars, paVars, ofVars, icVars, dsVars, prVars>>
icForeign == <<trimVars, rzVars, pmVars, envVars, paVars, ofVars, psVars, dsVars, prVars>>
dsForeign == <<trimVars, rzVars, pmVars, envVars, paVars, ofVars, psVars, icVars, prVars>>
prForeign == <<trimVars, rzVars, pmVars, envVars, paVars, ofVars, psVars, icVars, dsVars>>

-----------------------------------------------------------------------------
(* Bounds of the model *)

\* largest width of a buffer handed to TrimWhitespace
MaxW == 3
\* largest height of a buffer handed to TrimWhitespace
MaxH == 3
\* number of successive TrimWhitespace calls on one buffer
MaxTrimCalls == 2
\* largest width and height of a buffer handed to ResizeWithAspect
MaxSide == 3
\* largest targetSize handed to ResizeWithAspect
MaxTarget == 5
\* largest number of textures handed to ProcessTextureMultiple
MaxFrames == 2
\* largest number of pieces an alignment request is written from
MaxPieces == 3
\* largest number of single-character edits made to an alignment request
MaxEdits == 2

-----------------------------------------------------------------------------
(* Pixels and images *)

NoError == "none"

\* default(Rgba32): what new Image<Rgba32>(w, h) is filled with
Transparent == <<0, 0>>

Alpha(p) == p[2]
Colour(p) == p[1]

Coords(w, h) == (0 .. w - 1) \X (0 .. h - 1)

\* new Image<Rgba32>(w, h)
NewImage(w, h) == [w |-> w, h |-> h, px |-> [p \in Coords(w, h) |-> Transparent]]

\* The pixel a loaded file holds at (x, y): its colour tells the positions
\* apart; a pixel of the mask is opaque or barely visible (alpha 1), any
\* other pixel is fully transparent but keeps its colour.
LoadedPixel(w, x, y, inMask) ==
    <<1 + x + y * w, IF inMask THEN (IF (x + y) % 2 = 0 THEN 255 ELSE 1) ELSE 0>>

\* Image.Load: a w x h buffer whose pixels of alpha > 0 are those of mask
LoadImage(w, h, mask) ==
    [w |-> w, h |-> h,
     px |-> [p \in Coords(w, h) |-> LoadedPixel(w, p[1], p[2], p \in mask)]]

-----------------------------------------------------------------------------
(* Processor.TrimWhitespace *)

\* the alpha threshold of TrimWhitespace
threshold == 0

\* the body of the two nested loops, on the pixel at (x, y)
TrimStepMissesMaxY(b, x, y, pixel) ==
    IF Alpha(pixel) > threshold
    THEN [minX |-> IF x < b.minX THEN x ELSE b.minX,
          minY |-> IF y < b.minY THEN y ELSE b.minY,
          maxX |-> IF x > b.maxX THEN x ELSE b.maxX,
          maxY |-> IF y > b.maxY /\ b.maxY < 0 THEN y ELSE b.maxY]
    ELSE b

TrimStep(b, x, y, pixel) ==
    IF Alpha(pixel) > threshold
    THEN [minX |-> IF x < b.minX THEN x ELSE b.minX,
          minY |-> IF y < b.minY THEN y ELSE b.minY,
          maxX |-> IF x > b.maxX THEN x ELSE b.maxX,
          maxY |-> IF y > b.maxY THEN y ELSE b.maxY]
    ELSE b

\* The function f with all its values computed: a function constructor
\* alone is evaluated again at each application.
Computed(f) == IF f = f THEN f ELSE f

\* The value e, where the values of f are computed before e is: e is the
\* same with and without them, and is evaluated faster with them.
Given(f, e) == IF f = f THEN e ELSE e

\* for (x ...) for (y ...): the k-th pixel visited is (k div H, k mod H);
\* b is the bounds after the pixels before it
RECURSIVE TrimScan(_, _, _)
TrimScan(img, k, b) ==
    IF k >= img.w * img.h
    THEN b
    ELSE Given(b, TrimScan(img, k + 1,
                           TrimStep(b, k \div img.h, k % img.h,
                                    img.px[<<k \div img.h, k % img.h>>])))

TrimBounds(img) ==
    TrimScan(img, 0, [minX |-> img.w, minY |-> img.h, maxX |-> -1, maxY |-> -1])

\* if (maxX < 0 || maxY < 0) throw
TrimNeverThrows(b) == FALSE

TrimIsEmpty(b) == b.maxX < 0 \/ b.maxY < 0

\* new Rectangle(minX, minY, maxX - minX + 1, maxY - minY + 1)
TrimRectangleOffByOne(b) ==
    [x |-> b.minX, y |-> b.minY, w |-> b.maxX - b.minX, h |-> b.maxY - b.minY + 1]

TrimRectangle(b) ==
    [x |-> b.minX, y |-> b.minY, w |-> b.maxX - b.minX + 1, h |-> b.maxY - b.minY + 1]

\* ctx.Crop(rect): the pixels of rect, moved to the origin
Crop(img, rect) ==
    [w |-> rect.w, h |-> rect.h,
     px |-> [p \in Coords(rect.w, rect.h) |-> img.px[<<p[1] + rect.x, p[2] + rect.y>>]]]

\* The outcome of TrimWhitespace(img): the exception thrown, if any, and the
\* buffer as the call leaves it.
TrimWhitespace(img) ==
    LET b == TrimBounds(img)
    IN  IF TrimIsEmpty(b)
        THEN [err |-> "InvalidOperationException", image |-> img]
        ELSE [err |-> NoError, image |-> Crop(img, TrimRectangle(b))]

-----------------------------------------------------------------------------
(* Fractions <<n, d>> with d > 0: the numbers the command line gives, and   *)
(* the real numbers the properties speak of                                 *)

R(n, d) == <<n, d>>
RInt(i) == <<i, 1>>
RMul(a, b) == <<a[1] * b[1], a[2] * b[2]>>
\* a / b for b > 0
RDiv(a, b) == <<a[1] * b[2], a[2] * b[1]>>
RAdd(a, b) == <<a[1] * b[2] + b[1] * a[2], a[2] * b[2]>>
RSub(a, b) == <<a[1] * b[2] - b[1] * a[2], a[2] * b[2]>>
\* a == b
REq(a, b) == a[1] * b[2] = b[1] * a[2]
\* the same number in lowest terms
RECURSIVE GCD(_, _)
GCD(a, b) == IF b = 0 THEN a ELSE GCD(b, a % b)
RNorm(q) ==
    LET g == GCD(IF q[1] < 0 THEN -q[1] ELSE q[1], q[2])
    IN  <<q[1] \div g, q[2] \div g>>

\* q to the nearest integer, an exact half to the even neighbour
RRound(q) ==
    LET f == (2 * q[1] + q[2]) \div (2 * q[2])
        tie == (2 * q[1] + q[2]) % (2 * q[2]) = 0
    IN  IF tie /\ f % 2 = 1 THEN f - 1 ELSE f

MathMax(a, b) == IF a >= b THEN a ELSE b
MathMin(a, b) == IF a <= b THEN a ELSE b

-----------------------------------------------------------------------------
(* Integers wider than 32 bits: a natural number is the sequence of its     *)
(* digits to the base 2^11, the lowest first, without leading zeros.        *)

LimbBase == 2048
LimbBits == 11

RECURSIVE WTrim(_)
WTrim(x) == IF x # <<>> /\ x[Len(x)] = 0 THEN WTrim(SubSeq(x, 1, Len(x) - 1)) ELSE x

WLimb(a, i) == IF i >= 1 /\ i <= Len(a) THEN a[i] ELSE 0

\* the natural number i
RECURSIVE WNat(_)
WNat(i) == IF i = 0 THEN <<>> ELSE <<i % LimbBase>> \o WNat(i \div LimbBase)

\* a + b from digit i on, c carried in
RECURSIVE WAddFrom(_, _, _, _)
WAddFrom(a, b, i, c) ==
    IF i > Len(a) /\ i > Len(b) THEN WNat(c)
    ELSE <<(WLimb(a, i) + WLimb(b, i) + c) % LimbBase>>
            \o WAddFrom(a, b, i + 1, (WLimb(a, i) + WLimb(b, i) + c) \div LimbBase)

WAdd(a, b) == WAddFrom(a, b, 1, 0)

\* a - b from digit i on, for a >= b; c is 0, or -1 when a digit was borrowed
RECURSIVE WSubFrom(_, _, _, _)
WSubFrom(a, b, i, c) ==
    IF i > Len(a) THEN <<>>
    ELSE <<(a[i] - WLimb(b, i) + c) % LimbBase>>
            \o WSubFrom(a, b, i + 1, (a[i] - WLimb(b, i) + c) \div LimbBase)

WSub(a, b) == WTrim(WSubFrom(a, b, 1, 0))

\* -1, 0 or 1 as a is below, equal to or above b
RECURSIVE WCompareFrom(_, _, _)
WCompareFrom(a, b, i) ==
    IF i = 0 THEN 0
    ELSE IF a[i] < b[i] THEN -1
    ELSE IF a[i] > b[i] THEN 1
    ELSE WCompareFrom(a, b, i - 1)

WCompare(a, b) ==
    IF Len(a) < Len(b) THEN -1
    ELSE IF Len(a) > Len(b) THEN 1
    ELSE WCompareFrom(a, b, Len(a))

\* the sum of a[i] * b[k + 1 - i] over the digits both numbers have
RECURSIVE WColumn(_, _, _, _)
WColumn(a, b, k, i) ==
    IF i > Len(a) \/ i > k THEN 0
    ELSE (IF k + 1 - i <= Len(b) THEN a[i] * b[k + 1 - i] ELSE 0) + WColumn(a, b, k, i + 1)

\* a * b from digit k on

RECURSIVE WMulFrom(_, _, _, _)
WMulFrom(a, b, k, c) ==
    IF k > Len(a) + Len(b) - 1 THEN WNat(c)
    ELSE <<(WColumn(a, b, k, 1) + c) % LimbBase>>
            \o WMulFrom(a, b, k + 1, (WColumn(a, b, k, 1) + c) \div LimbBase)

WMul(a, b) == IF a = <<>> \/ b = <<>> THEN <<>> ELSE WMulFrom(a, b, 1, 0)

RECURSIVE WZeros(_)
WZeros(n) == IF n <= 0 THEN <<>> ELSE <<0>> \o WZeros(n - 1)

RECURSIVE Pow2(_)
Pow2(n) == IF n <= 0 THEN 1 ELSE 2 * Pow2(n - 1)

\* a * 2^n
WShiftLeft(a, n) ==
    IF a = <<>> THEN <<>>
    ELSE WZeros(n \div LimbBits) \o WMulFrom(a, <<Pow2(n % LimbBits)>>, 1, 0)

\* the quotient and the remainder of a by the integer k, 0 < k < 2^20: the
\* digits of a from the highest down, q the digits of the quotient so far
RECURSIVE WDivFrom(_, _, _, _, _)
WDivFrom(a, k, i, q, r) ==
    IF i = 0 THEN [quotient |-> WTrim(q), remainder |-> r]
    ELSE WDivFrom(a, k, i - 1, <<(r * LimbBase + a[i]) \div k>> \o q,
                  (r * LimbBase + a[i]) % k)

WDivInt(a, k) == WDivFrom(a, k, Len(a), <<>>, 0)

\* the quotient and the remainder of a by 2^n
WShiftRight(a, n) ==
    LET whole == n \div LimbBits
        upper == IF whole >= Len(a) THEN <<>> ELSE SubSeq(a, whole + 1, Len(a))
        lower == WTrim(IF whole >= Len(a) THEN a ELSE SubSeq(a, 1, whole))
        d == WDivInt(upper, Pow2(n % LimbBits))
    IN  [quotient |-> d.quotient,
         remainder |-> WAdd(lower, WShiftLeft(WNat(d.remainder), whole * LimbBits))]

RECURSIVE BitLength(_)
BitLength(i) == IF i = 0 THEN 0 ELSE 1 + BitLength(i \div 2)

\* the number of binary digits of a
WBitLength(a) ==
    IF a = <<>> THEN 0 ELSE LimbBits * (Len(a) - 1) + BitLength(a[Len(a)])

-----------------------------------------------------------------------------
(* Signed integers wider than 32 bits: the digits to the base 2^11, the     *)
(* lowest first, the highest digit carrying the sign.  A natural number of  *)
(* the section above is such a number.                                      *)

\* the digits of the integer n
RECURSIVE Digits(_)
Digits(n) ==
    IF n >= -LimbBase /\ n < LimbBase THEN <<n>>
    ELSE <<n % LimbBase>> \o Digits(n \div LimbBase)

\* -1, 0 or 1 as the number is negative, zero or positive
Sign(a) ==
    IF a = <<>> THEN 0
    ELSE IF a[Len(a)] < 0 THEN -1
    ELSE IF \A i \in 1 .. Len(a) : a[i] = 0 THEN 0
    ELSE 1

\* the digits of the number whose columns, the lowest first, are any
\* integers: cols[i] + carry and the columns above it
RECURSIVE Carried(_, _, _)
Carried(cols, i, carry) ==
    LET column == cols[i] + carry
    IN  IF i >= Len(cols) THEN Digits(column)
        ELSE <<column % LimbBase>> \o Carried(cols, i + 1, column \div LimbBase)

\* xs[t] * ys[t] + xs[t + 1] * ys[t + 1] + ... for integers
RECURSIVE SumOfProducts(_, _, _)
SumOfProducts(xs, ys, t) ==
    IF t > Len(xs) THEN 0 ELSE xs[t] * ys[t] + SumOfProducts(xs, ys, t + 1)

\* The weights of a kernel as planes: planes[c][t] is digit c of weight t.
Planes(weights, count) ==
    Computed([c \in 1 .. count |->
                 [t \in 1 .. Len(weights) |-> WLimb(Digits(weights[t]), c)]])

\* column c of the sum of weight t times value t over t, where levels[j][t]
\* is digit j of value t: the planes i, i + 1, ... times the levels c + 1 - i
RECURSIVE DotColumn(_, _, _, _)
DotColumn(planes, levels, c, i) ==
    IF i > Len(planes) \/ i > c THEN 0
    ELSE (IF c + 1 - i <= Len(levels)
          THEN SumOfProducts(planes[i], levels[c + 1 - i], 1) ELSE 0)
         + DotColumn(planes, levels, c, i + 1)

\* the sum of weight t times value t over t, where levels[j][t] is digit j
\* of value t
DotLevels(planes, levels) ==
    LET columns == [c \in 1 .. Len(planes) + Len(levels) - 1 |->
                       DotColumn(planes, levels, c, 1)]
    IN  Given(levels, Given(columns, Carried(columns, 1, 0)))

\* the sum of weight t times vs[t] over t, for integers vs[t] of at most 16
\* binary digits
DotInts(planes, vs) == DotLevels(planes, <<vs>>)

\* the sum of weight t times vs[t] over t, for numbers vs[t] of at most n
\* digits
Dot(planes, vs, n) ==
    DotLevels(planes, [j \in 1 .. n |-> [t \in 1 .. Len(planes[1]) |-> WLimb(vs[t], j)]])

\* a * n + b * m for integers n and m of at most 9 binary digits, from
\* digit i on
RECURSIVE CombineFrom(_, _, _, _, _, _)
CombineFrom(a, n, b, m, i, carry) ==
    LET column == WLimb(a, i) * n + WLimb(b, i) * m + carry
    IN  IF i >= Len(a) /\ i >= Len(b) THEN Digits(column)
        ELSE <<column % LimbBase>> \o CombineFrom(a, n, b, m, i + 1, column \div LimbBase)

Combine(a, n, b, m) == CombineFrom(a, n, b, m, 1, 0)

\* a / b + 1/2 rounded down, for integers a >= 0 and b > 0
RoundedQuotient(a, b) == a \div b + (IF 2 * (a % b) >= b THEN 1 ELSE 0)

\* the byte between lower and upper, two bytes next to each other, that n / d
\* + 1/2 rounded down is: the higher one when 2n + d is at least 2d times it
ByteBetween(n, d, lower, upper) ==
    IF lower >= 255 THEN 255
    ELSE IF lower = upper THEN lower
    ELSE IF Sign(Combine(n, 2, d, 1 - 2 * upper)) >= 0 THEN upper
    ELSE lower

\* the same, where dHigh is the two highest digits of d and nHigh the digits
\* of n above them, and low = 1 tells that they are all the digits
ByteOfHigh(n, d, low, nHigh, dHigh) ==
    ByteBetween(n, d,
                RoundedQuotient(nHigh, IF low = 1 THEN dHigh ELSE dHigh + 1),
                RoundedQuotient(IF low = 1 THEN nHigh ELSE nHigh + 1, dHigh))

\* the same, where low is the place of the lower of the two highest digits
\* of d
ByteFrom(n, d, low) ==
    IF Sign(n) <= 0 THEN 0
    ELSE IF Len(n) > low + 2 \/ WLimb(n, low + 2) >= 256 THEN 255
    ELSE ByteOfHigh(n, d, low,
                    WLimb(n, low) + LimbBase * (WLimb(n, low + 1)
                                                + LimbBase * WLimb(n, low + 2)),
                    WLimb(d, low) + LimbBase * WLimb(d, low + 1))

\* the same for numbers with no zeros above their highest digit
ByteOfTrimmed(n, d) == ByteFrom(n, d, IF Len(d) > 2 THEN Len(d) - 1 ELSE 1)

\* the byte (byte)(255 * v + 0.5) of a value v = n / (255 * d) clamped to
\* 0 .. 1, for numbers n and d > 0: n / d + 1/2 rounded down, at least 0
\* and at most 255.  The two highest digits of d and the digits of n above
\* them bound n / d from both sides; where the bounds round to different
\* bytes a comparison of 2n + d with 2d times the higher byte decides.
ByteOfRatio(n, d) == ByteOfTrimmed(WTrim(n), WTrim(d))

-----------------------------------------------------------------------------
(* System.Double: a finite double is [neg, m, e], the number m * 2^e with   *)
(* the sign neg, where m has exactly 53 binary digits, or is 0 with e = 0.  *)
(* Every operation gives the double nearest to the exact result, an exact   *)
(* half to the even neighbour, as IEEE 754 arithmetic does.  Infinities,    *)
(* NaN and subnormal numbers do not arise in the offsets computed here.     *)

DoubleDigits == 53

DZero == [neg |-> FALSE, m |-> <<>>, e |-> 0]

\* cut.quotient + cut.remainder / (2 * half) rounded to the nearest integer,
\* an exact half to the even one; sticky tells that the exact number is a
\* little above
RoundedCut(cut, half, sticky) ==
    LET above == WCompare(cut.remainder, half)
    IN  IF above > 0 \/ (above = 0 /\ (sticky \/ WLimb(cut.quotient, 1) % 2 = 1))
        THEN WAdd(cut.quotient, WNat(1))
        ELSE cut.quotient

\* n / 2^drop rounded to the nearest integer, for drop > 0
RoundedShift(n, drop, sticky) ==
    RoundedCut(WShiftRight(n, drop), WShiftLeft(WNat(1), drop - 1), sticky)

\* the double m * 2^e for m of 53 binary digits, or of 54 with the last 0
DoubleOfRounded(neg, m, e) ==
    IF WBitLength(m) > DoubleDigits
    THEN [neg |-> neg, m |-> WDivInt(m, 2).quotient, e |-> e + 1]
    ELSE [neg |-> neg, m |-> m, e |-> e]

\* the double nearest to n * 2^e, where n has 53 + drop binary digits
DoubleOfLength(neg, n, e, sticky, drop) ==
    IF drop <= 0
    THEN [neg |-> neg, m |-> WShiftLeft(n, -drop), e |-> e + drop]
    ELSE DoubleOfRounded(neg, RoundedShift(n, drop, sticky), e + drop)

\* the double nearest to n * 2^e, n a natural number; sticky tells that
\* the exact number is a little above n * 2^e
DoubleOf(neg, n, e, sticky) ==
    IF n = <<>> THEN DZero
    ELSE DoubleOfLength(neg, n, e, sticky, WBitLength(n) - DoubleDigits)

\* (double)i
DInt(i) == DoubleOf(i < 0, WNat(IF i < 0 THEN -i ELSE i), 0, FALSE)

\* -x
DNeg(x) == IF x.m = <<>> THEN x ELSE [x EXCEPT !.neg = ~x.neg]

\* the double nearest to (a or -a) + (b or -b) times 2^e, for naturals a
\* and b
DSum(aNeg, a, bNeg, b, e) ==
    LET c == WCompare(a, b)
    IN  IF aNeg # bNeg /\ c = 0 THEN DZero
        ELSE DoubleOf(IF aNeg = bNeg \/ c > 0 THEN aNeg ELSE bNeg,
                      IF aNeg = bNeg THEN WAdd(a, b)
                      ELSE IF c > 0 THEN WSub(a, b) ELSE WSub(b, a),
                      e, FALSE)

\* x + y, with e the lower exponent of the two
DAddAt(x, y, e) ==
    DSum(x.neg, WShiftLeft(x.m, x.e - e), y.neg, WShiftLeft(y.m, y.e - e), e)

\* x + y
DAdd(x, y) ==
    IF x.m = <<>> THEN y
    ELSE IF y.m = <<>> THEN x
    ELSE DAddAt(x, y, IF x.e <= y.e THEN x.e ELSE y.e)

\* x - y
DSub(x, y) == DAdd(x, DNeg(y))

\* x * y
DMul(x, y) ==
    IF x.m = <<>> \/ y.m = <<>> THEN DZero
    ELSE DoubleOf(x.neg # y.neg, WMul(x.m, y.m), x.e + y.e, FALSE)

\* x / k for an integer k, 0 < k < 2^20: the quotient is taken to 55 more
\* digits than a double holds, what is left of it only makes it sticky
DDivInt(x, k) ==
    LET d == WDivInt(WShiftLeft(x.m, 5 * LimbBits), k)
    IN  IF x.m = <<>> THEN DZero
        ELSE DoubleOf(x.neg, d.quotient, x.e - 5 * LimbBits, d.remainder # 0)

\* the double a decimal literal n / d stands for, 0 < d < 2^20
DLiteral(n, d) == DDivInt(DInt(n), d)

\* Math.Round(x): the nearest integer, an exact half to the even one
DRound(x) ==
    IF x.e >= 0 THEN x ELSE DoubleOf(x.neg, RoundedShift(x.m, -x.e, FALSE), 0, FALSE)

\* Math.Round(x, MidpointRounding.AwayFromZero)
DRoundAwayFromZero(x) ==
    IF x.e >= 0 THEN x ELSE DoubleOf(x.neg, RoundedShift(x.m, -x.e, TRUE), 0, FALSE)

\* the natural number of at most three digits
WValue(a) == WLimb(a, 1) + LimbBase * (WLimb(a, 2) + LimbBase * WLimb(a, 3))

\* (int)x for a double x that holds an integer, |x| < 2^31
DToInt(x) ==
    IF x.m = <<>> THEN 0
    ELSE (IF x.neg THEN -1 ELSE 1) * WValue(WShiftRight(x.m, -x.e).quotient)

\* (int)Math.Round(x): to the nearest integer, an exact half to the even
\* neighbour (MidpointRounding.ToEven, the default)
MathRoundAwayFromZero(x) == DToInt(DRoundAwayFromZero(x))

MathRound(x) == DToInt(DRound(x))

\* the double a number n / d of the command line or a literal of the code
\* stands for
DOfRational(q) == DLiteral(q[1], q[2])

\* 1.0
DOne == DInt(1)

\* x == y as doubles
DEq(x, y) == x.m = y.m /\ x.e = y.e /\ (x.neg = y.neg \/ x.m = <<>>)

\* the double is exactly the fraction n / d, d > 0
DIs(x, n, d) ==
    /\ (n < 0) = (x.neg /\ x.m # <<>>)
    /\ LET left == WMul(x.m, WNat(d))
           right == WNat(IF n < 0 THEN -n ELSE n)
       IN  IF x.e >= 0 THEN WShiftLeft(left, x.e) = right
           ELSE left = WShiftLeft(right, -x.e)

-----------------------------------------------------------------------------
(* ImageSharp operations the processors call *)

\* The dimensions ctx.Resize(width, height, sampler) gives the buffer: a 0
\* beside a positive other dimension is replaced by the dimension that keeps
\* the aspect ratio of the source, at least 1.
ResizeKeepsZero(srcW, srcH, width, height) == [w |-> width, h |-> height]

ResizeTarget(srcW, srcH, width, height) ==
    [w |-> IF width = 0 /\ height > 0
           THEN MathMax(1, RRound(R(srcW * height, srcH)))
           ELSE width,
     h |-> IF height = 0 /\ width > 0
           THEN MathMax(1, RRound(R(srcH * width, srcW)))
           ELSE height]

\* ctx.Resize throws when neither dimension is positive
ResizeThrowsOnAnyZero(width, height) == width <= 0 \/ height <= 0

ResizeThrows(width, height) == width <= 0 /\ height <= 0

Abs(n) == IF n < 0 THEN -n ELSE n

RECURSIVE SumFrom(_, _)
SumFrom(xs, t) == IF t > Len(xs) THEN 0 ELSE xs[t] + SumFrom(xs, t + 1)

\* BicubicResampler.GetValue(x) for x = n / d, times 2 * d^3: with a = -0.5,
\* 1.5 x^3 - 2.5 x^2 + 1 up to 1 and -0.5 x^3 + 2.5 x^2 - 4 x + 2 up to 2
Bicubic(n, d) ==
    IF Abs(n) <= d
    THEN (3 * Abs(n) - 5 * d) * Abs(n) * Abs(n) + 2 * d * d * d
    ELSE IF Abs(n) < 2 * d
    THEN ((5 * d - Abs(n)) * Abs(n) - 8 * d * d) * Abs(n) + 4 * d * d * d
    ELSE 0

\* ResizeKernelMap.BuildKernel for the destination index i of an axis
\* resized from src to dst pixels: with ratio = src / dst, scale = max(ratio,
\* 1), radius = ceil(2 * scale) and center = (i + 0.5) * ratio - 0.5 the
\* kernel covers the source pixels from ceil(center - radius) to floor(center
\* + radius) that exist, the weight of pixel j is the sampler's value at (j -
\* center) / scale, and the weights are divided by their sum when that is
\* positive.  (j - center) / scale is the fraction (dst * (2j + 1) - src *
\* (2i + 1)) / (2 * max(src, dst)), taken here in lowest terms n / d; the
\* weights are kept as integers, [values] times full = 2 d^3, beside their
\* divisor.
ResizeKernelOf(left, values, full) ==
    LET sum == SumFrom(values, 1)
        divisor == IF sum > 0 THEN sum ELSE full
    IN  [left |-> left,
         length |-> Len(values),
         planes |-> Planes(values, Len(Digits(full))),
         divisor |-> Digits(divisor),
         divisorPlanes |-> Planes(<<divisor>>, Len(Digits(divisor)))]

ResizeKernel(src, dst, i) ==
    LET g == GCD(GCD(2 * dst, 2 * src), Abs(dst - src))
        d == (2 * MathMax(src, dst)) \div g
        radius == IF src > dst THEN -((-2 * src) \div dst) ELSE 2
        centre2 == (2 * i + 1) * src - dst
        left == MathMax(0, -((2 * dst * radius - centre2) \div (2 * dst)))
        right == MathMin(src - 1, (centre2 + 2 * dst * radius) \div (2 * dst))
    IN  ResizeKernelOf(
            left,
            Computed([t \in 1 .. right - left + 1 |->
                Bicubic((dst * (2 * (left + t - 1) + 1) - src * (2 * i + 1)) \div g, d)]),
            2 * d * d * d)

\* the pixels of a buffer as its rows: PixelRows(img)[y][x] is the pixel at
\* (x, y)
PixelRows(img) ==
    Computed([y \in 0 .. img.h - 1 |-> [x \in 0 .. img.w - 1 |-> img.px[<<x, y>>]]])

\* -a
Negated(a) == Combine(a, -1, a, 0)

\* The bytes of a pixel whose premultiplied colour is colour / (255 * 255 *
\* unit) and whose alpha is alpha / (255 * unit): the colour is divided by
\* the alpha unless that is 0, each value is clamped to 0 .. 1, multiplied
\* by 255 and rounded.
UnPremultiplied(colour, alpha, unit) ==
    <<IF Sign(alpha) = 0 THEN ByteOfRatio(colour, Combine(unit, 255, unit, 0))
      ELSE IF Sign(alpha) > 0 THEN ByteOfRatio(colour, alpha)
      ELSE ByteOfRatio(Negated(colour), Negated(alpha)),
      ByteOfRatio(alpha, unit)>>

\* the kernels of an axis resized from src to dst pixels
ResizeKernels(src, dst) == Computed([i \in 0 .. dst - 1 |-> ResizeKernel(src, dst, i)])

\* The first pass, over the rows of source, a buffer of height h, with the
\* kernels kx of the new width w: at [y][x] the sum of the colours times
\* their alpha, and the sum of the alphas, each times its weight.
ResampledRows(source, h, w, kx) ==
    Computed([y \in 0 .. h - 1 |->
                 [x \in 0 .. w - 1 |->
                     LET k == kx[x]
                         taps == [t \in 1 .. k.length |-> source[y][k.left + t - 1]]
                     IN  Given(taps,
                             <<DotInts(k.planes, [t \in 1 .. k.length |->
                                          Colour(taps[t]) * Alpha(taps[t])]),
                               DotInts(k.planes, [t \in 1 .. k.length |->
                                          Alpha(taps[t])])>>)]])

\* The second pass, over the columns of rows with the kernels ky of the
\* new height h, and the pixels as bytes; digits is the most digits a sum
\* of the first pass has.
ResampledPixels(rows, w, h, kx, ky, digits) ==
    Computed([p \in Coords(w, h) |->
                 LET k == ky[p[2]]
                 IN  UnPremultiplied(
                         Dot(k.planes, [t \in 1 .. k.length |->
                                           rows[k.left + t - 1][p[1]][1]], digits),
                         Dot(k.planes, [t \in 1 .. k.length |->
                                           rows[k.left + t - 1][p[1]][2]], digits),
                         Dot(kx[p[1]].divisorPlanes, <<k.divisor>>, Len(k.divisor)))])

\* the buffer of source, of height srcH, resampled to w by h with the
\* kernels kx and ky
ResampleWith(source, srcH, w, h, kx, ky) ==
    Given(source, Given(kx, Given(ky,
        [w |-> w, h |-> h,
         px |-> ResampledPixels(ResampledRows(source, srcH, w, kx), w, h, kx, ky,
                                Len(Digits(255 * 255)) + Len(kx[0].divisor) + 1)])))

\* The resampled pixels.  A resize to the size the buffer already has copies
\* the pixels.  Otherwise each pixel is multiplied by its alpha, the rows are
\* resampled to the new width and the columns of the result to the new
\* height, each value the sum of the source values its kernel covers times
\* their weights, and the pixels are divided by their alpha and stored as
\* bytes.  The library holds the weights and the sums in single precision;
\* the sums are exact here.
Resample(img, w, h) ==
    IF w = img.w /\ h = img.h THEN img
    ELSE ResampleWith(PixelRows(img), img.h, w, h,
                      ResizeKernels(img.w, w), ResizeKernels(img.h, h))

\* image.Mutate(ctx => ctx.Resize(width, height, new BicubicResampler()))
Resize(img, width, height) ==
    IF ResizeThrows(width, height)
    THEN [err |-> "ImageProcessingException", image |-> img]
    ELSE LET t == ResizeTarget(img.w, img.h, width, height)
         IN  [err |-> NoError, image |-> Resample(img, t.w, t.h)]

\* One byte of a blended pixel: 255 * v + 0.5, truncated
ToByte(q) == (2 * q[1] + q[2]) \div (2 * q[2])

\* The default blend of DrawImage (normal colour blending, source over
\* destination, opacity 1): src over dst in straight alpha.
Over(dst, src) ==
    LET sa == Alpha(src)
        da == Alpha(dst)
        \* 255 * 255 * (da + sa - da * sa / 255) / 255
        outA == 255 * da + 255 * sa - da * sa
    IN  IF outA = 0
        THEN Transparent
        ELSE <<ToByte(R(Colour(dst) * da * (255 - sa) + Colour(src) * sa * 255, outA)),
               ToByte(R(outA, 255))>>

\* The part of the background that fg, drawn at (x, y), covers
DrawRegion(bg, fg, x, y) ==
    {p \in Coords(bg.w, bg.h) :
        /\ p[1] >= x /\ p[1] < x + fg.w
        /\ p[2] >= y /\ p[2] < y + fg.h}

\* bg.Mutate(ctx => ctx.DrawImage(fg, new Point(x, y), 1f)): fg is blended over
\* the part of bg it covers.  When it covers nothing the call throws or
\* draws nothing, depending on the ImageSharp build.
DrawImage(bg, fg, x, y) ==
    IF DrawRegion(bg, fg, x, y) = {}
    THEN [err |-> IF drawOutsideThrows THEN "ImageProcessingException" ELSE NoError,
          image |-> bg]
    ELSE [err |-> NoError,
          image |-> [bg EXCEPT !.px =
                        [p \in Coords(bg.w, bg.h) |->
                            IF p \in DrawRegion(bg, fg, x, y)
                            THEN Over(bg.px[p], fg.px[<<p[1] - x, p[2] - y>>])
                            ELSE bg.px[p]]]]

-----------------------------------------------------------------------------
(* Processor.ResizeWithAspect *)

\* newWidth and newHeight, after the scale is applied: doubles, as are
\* targetSize and scale
AspectSizeSquare(W, H, targetSize, scale) ==
    [newWidth |-> DMul(targetSize, scale), newHeight |-> DMul(targetSize, scale)]

AspectSize(W, H, targetSize, scale) ==
    IF W > H
    THEN [newWidth  |-> DMul(targetSize, scale),
          newHeight |-> DMul(DMul(DInt(H), DDivInt(targetSize, W)), scale)]
    ELSE [newWidth  |-> DMul(DMul(DInt(W), DDivInt(targetSize, H)), scale),
          newHeight |-> DMul(targetSize, scale)]

\* PictureProcessor.Processor.ResizeWithAspect(image, targetSize, scale):
\* the exception thrown, if any, the buffer as the call leaves it, newWidth
\* and newHeight, and the width and height it asked the resampler for; r is
\* what Resize gave.
ResizeWithAspectTo(r, n, width, height) ==
    [err |-> r.err, image |-> r.image, newWidth |-> n.newWidth,
     newHeight |-> n.newHeight, width |-> width, height |-> height]

\* the call of Resize, n being newWidth and newHeight
ResizeRounded(img, n, width, height) ==
    ResizeWithAspectTo(Resize(img, width, height), n, width, height)

ResizeToSize(img, n) ==
    ResizeRounded(img, n, MathRound(n.newWidth), MathRound(n.newHeight))

ResizeWithAspect(img, targetSize, scale) ==
    ResizeToSize(img, AspectSize(img.w, img.h, targetSize, scale))

\* an anchor argument of null
NullAnchor == <<>>

\* anchor ??= (0.5, 0.5)
AnchorOrDefault(anchor) == IF anchor = NullAnchor THEN <<R(1, 2), R(1, 2)>> ELSE anchor

\* (int)Math.Round((canvasSize - image.Width) * anchor.Value.X), and the same for Y
PadOffsetIgnoresImage(canvasSize, imageSide, anchorComponent) ==
    MathRound(DMul(DInt(canvasSize), DOfRational(anchorComponent)))

PadOffset(canvasSize, imageSide, anchorComponent) ==
    MathRound(DMul(DInt(canvasSize - imageSide), DOfRational(anchorComponent)))

\* IconProcessor.Processor.ResizeWithAspect(image, targetSize, scale, anchor):
\* as above, and the canvas side, the pad offsets and the padded canvas it
\* returns; r is what ResizeWithAspect above gave and a the anchor used.
IconPadded(r, canvasSize, padLeft, padTop, d) ==
    IF r.err # NoError
    THEN r
    ELSE IF canvasSize <= 0
    THEN [err |-> "ArgumentOutOfRangeException", image |-> r.image,
          newWidth |-> r.newWidth, newHeight |-> r.newHeight,
          width |-> r.width, height |-> r.height, canvasSize |-> canvasSize,
          padLeft |-> padLeft, padTop |-> padTop]
    ELSE [err |-> d.err, image |-> r.image,
          newWidth |-> r.newWidth, newHeight |-> r.newHeight,
          width |-> r.width, height |-> r.height,
          canvasSize |-> canvasSize, padLeft |-> padLeft, padTop |-> padTop,
          padded |-> d.image]

IconPaddedAt(r, canvasSize, padLeft, padTop) ==
    IconPadded(r, canvasSize, padLeft, padTop,
               DrawImage(NewImage(canvasSize, canvasSize), r.image, padLeft, padTop))

IconResizeWithAspectTo(r, canvasSize, a) ==
    IconPaddedAt(r, canvasSize, PadOffset(canvasSize, r.image.w, a[1]),
                 PadOffset(canvasSize, r.image.h, a[2]))

IconResizeWithAspect(img, targetSize, scale, anchor) ==
    IconResizeWithAspectTo(ResizeWithAspect(img, targetSize, scale),
                           MathRound(DMul(targetSize, scale)),
                           AnchorOrDefault(anchor))

-----------------------------------------------------------------------------
(* Harness: TrimWhitespace applied to a loaded buffer, then again to its result *)

TrimIdle ==
    /\ image = "idle"
    /\ trimInput = "idle"
    /\ trimPrev = "idle"
    /\ trimCalls = 0
    /\ trimErr = NoError

TrimInit ==
    /\ \E w \in 0 .. MaxW, h \in 0 .. MaxH :
          \E mask \in SUBSET Coords(w, h) : image = LoadImage(w, h, mask)
    /\ trimInput = image
    /\ trimPrev = image
    /\ trimCalls = 0
    /\ trimErr = NoError

TrimCall ==
    /\ trimCalls < MaxTrimCalls
    /\ trimErr = NoError
    /\ \E r \in {TrimWhitespace(image)} :
           /\ image' = r.image
           /\ trimErr' = r.err
    /\ trimPrev' = image
    /\ trimCalls' = trimCalls + 1
    /\ UNCHANGED trimInput
    /\ UNCHANGED trimForeign

TrimNext == TrimCall

-----------------------------------------------------------------------------
(* Harness: one call of ResizeWithAspect on a trimmed buffer *)

\* the scale factors tried
Scales == {R(0, 1), R(1, 2), R(1, 1), R(3, 2)}

\* the anchors tried: none, or a point of {0, 0.5, 1} x {0, 0.5, 1}
AnchorComponents == {R(0, 1), R(1, 2), R(1, 1)}
Anchors == {NullAnchor} \cup (AnchorComponents \X AnchorComponents)

\* a trimmed w x h buffer: every border holds a visible pixel, (1,1) is
\* fully transparent
TrimmedImage(w, h) == LoadImage(w, h, Coords(w, h) \ {<<1, 1>>})

\* The calls tried beyond these sides and targets, [w, h, targetSize, scale]:
\* 3.5 and 7.5 are exact halves, and the doubles 7 * (3.0 / 9) * 1.5 and
\* 11 * (15.0 / 11) * 0.5 fall just below them
HalfCalls ==
    {[w |-> 7, h |-> 9, targetSize |-> 3, scale |-> R(3, 2)],
     [w |-> 9, h |-> 7, targetSize |-> 3, scale |-> R(3, 2)],
     [w |-> 11, h |-> 11, targetSize |-> 15, scale |-> R(1, 2)]}

RzCalls ==
    [w : 1 .. MaxSide, h : 1 .. MaxSide, targetSize : 1 .. MaxTarget, scale : Scales]
        \cup HalfCalls

RzInit ==
    /\ \E c \in RzCalls :
          /\ rzInput = TrimmedImage(c.w, c.h)
          /\ \/ rzArgs = [kind |-> "picture", targetSize |-> RInt(c.targetSize),
                          scale |-> c.scale]
             \/ \E a \in Anchors :
                   rzArgs = [kind |-> "icon", targetSize |-> RInt(c.targetSize),
                             scale |-> c.scale, anchor |-> a]
    /\ rzImage = rzInput
    /\ rzOut = [err |-> NoError]
    /\ rzPc = "call"

RzIdle ==
    /\ rzArgs = "idle"
    /\ rzInput = "idle"
    /\ rzImage = "idle"
    /\ rzOut = "idle"
    /\ rzPc = "idle"

\* Processor.ResizeWithAspect(image, targetSize, scale) of the picture processor
PictureResizeCall ==
    /\ rzPc = "call"
    /\ rzArgs.kind = "picture"
    /\ \E r \in {ResizeWithAspect(rzImage, DOfRational(rzArgs.targetSize),
                                   DOfRational(rzArgs.scale))} :
           /\ rzImage' = r.image
           /\ rzOut' = [f \in DOMAIN r \ {"image"} |-> r[f]]
    /\ rzPc' = "done"
    /\ UNCHANGED <<rzArgs, rzInput>>
    /\ UNCHANGED rzForeign

\* Processor.ResizeWithAspect(image, targetSize, scale, anchor) of the icon processor
IconResizeCall ==
    /\ rzPc = "call"
    /\ rzArgs.kind = "icon"
    /\ \E r \in {IconResizeWithAspect(rzImage, DOfRational(rzArgs.targetSize),
                                       DOfRational(rzArgs.scale), rzArgs.anchor)} :
           /\ rzImage' = r.image
           /\ rzOut' = [f \in DOMAIN r \ {"image"} |-> r[f]]
    /\ rzPc' = "done"
    /\ UNCHANGED <<rzArgs, rzInput>>
    /\ UNCHANGED rzForeign

RzNext == PictureResizeCall \/ IconResizeCall

-----------------------------------------------------------------------------
(* Program.ProcessTextureMultiple of the picture processor *)

\* a reference that is null
Null == [null |-> TRUE]

\* the tile size the images are resized to
TileTarget == 64

\* the sides of the texture files tried
FrameSides == 1 .. 2

\* a 4x1 texture that shows its first three pixels: 64.0 / 3 is a double
\* beside 64/3
WideFrame == LoadImage(4, 1, Coords(3, 1))

\* the texture files tried: every alpha mask on every size, and the wide one
FrameFiles ==
    UNION {{LoadImage(w, h, mask) : mask \in SUBSET Coords(w, h)} :
              <<w, h>> \in FrameSides \X FrameSides}
        \cup {WideFrame}

\* the shadow files tried: none, a full 2x2 shadow, a 2x1 shadow with one
\* visible pixel
ShadowFiles == {Null, LoadImage(2, 2, Coords(2, 2)), LoadImage(2, 1, {<<1, 0>>})}

\* the scales tried: 0, and those that resize to 1 and to 2 pixels
PmScales == {R(0, 1), R(1, 64), R(1, 32)}

\* the sequences of n elements of S
Tuples(S, n) == [1 .. n -> S]

PmInit ==
    /\ \E n \in 2 .. MaxFrames : pmFiles \in Tuples(FrameFiles, n)
    /\ pmShadowFile \in ShadowFiles
    /\ pmScale \in PmScales
    /\ images = <<>>
    /\ shadowImage = Null
    /\ imageScale = DOne
    /\ spriteSheet = Null
    /\ pmSaved = <<>>
    /\ pmDisposed = {}
    /\ pmErr = NoError
    /\ pmPc = "load"

PmIdle ==
    /\ pmFiles = <<>>
    /\ pmShadowFile = Null
    /\ pmScale = R(1, 1)
    /\ images = <<>>
    /\ shadowImage = Null
    /\ imageScale = DOne
    /\ spriteSheet = Null
    /\ pmSaved = <<>>
    /\ pmDisposed = {}
    /\ pmErr = NoError
    /\ pmPc = "idle"

\* images.Add(Image.Load<Rgba32>(textures[i].FullName)), one texture per step
PmLoad ==
    /\ pmPc = "load"
    /\ Len(images) < Len(pmFiles)
    /\ images' = Append(images, pmFiles[Len(images) + 1])
    /\ UNCHANGED <<pmFiles, pmShadowFile, pmScale, shadowImage, imageScale,
                   spriteSheet, pmSaved, pmDisposed, pmErr, pmPc>>
    /\ UNCHANGED pmForeign

\* if (shadowTexture != null) shadowImage = Image.Load<Rgba32>(...)
PmLoadShadow ==
    /\ pmPc = "load"
    /\ Len(images) = Len(pmFiles)
    /\ shadowImage' = pmShadowFile
    /\ pmPc' = "validate"
    /\ UNCHANGED <<pmFiles, pmShadowFile, pmScale, images, imageScale,
                   spriteSheet, pmSaved, pmDisposed, pmErr>>
    /\ UNCHANGED pmForeign

\* the validation loop: images[i] against images[0]
SameDimensions(imgs) ==
    \A i \in 2 .. Len(imgs) : imgs[i].w = imgs[1].w /\ imgs[i].h = imgs[1].h

PmValidate ==
    /\ pmPc = "validate"
    /\ IF SameDimensions(images)
       THEN /\ pmPc' = "process"
            /\ UNCHANGED pmErr
       ELSE /\ pmPc' = "finally"
            /\ pmErr' = "InvalidOperationException: All textures must have the same dimensions."
    /\ UNCHANGED <<pmFiles, pmShadowFile, pmScale, images, shadowImage, imageScale,
                   spriteSheet, pmSaved, pmDisposed>>
    /\ UNCHANGED pmForeign

\* the exception a call threw, if any, and the buffer as the call left it
Outcome(r) == [err |-> r.err, image |-> r.image]

\* One iteration of the processing loop on image i (1-based): TrimWhitespace,
\* then ResizeWithAspect(images[i], 64, scale); either may throw.
ProcessOne(img, scale) ==
    LET t == TrimWhitespace(img)
    IN  IF t.err # NoError THEN [err |-> t.err, image |-> t.image]
        ELSE Outcome(ResizeWithAspect(t.image, DInt(TileTarget), DOfRational(scale)))

\* 64.0 / Math.Max(image.Width, image.Height), taken after the trim
ImageScaleOfWidth(img) == DDivInt(DInt(TileTarget), img.w)
ImageScaleOf(img) == DDivInt(DInt(TileTarget), MathMax(img.w, img.h))

\* the processing loop from image i on; it stops at the first exception
RECURSIVE ProcessAll(_, _, _)
\* the loop at image i, where r is what ProcessOne gave for it
ProcessAllAfter(imgs, i, scale, r) ==
    IF r.err # NoError
    THEN [err |-> r.err, images |-> [imgs EXCEPT ![i] = r.image]]
    ELSE ProcessAll([imgs EXCEPT ![i] = r.image], i + 1, scale)

ProcessAll(imgs, i, scale) ==
    IF i > Len(imgs)
    THEN [err |-> NoError, images |-> imgs]
    ELSE ProcessAllAfter(imgs, i, scale, ProcessOne(imgs[i], scale))

\* the loop "Process all images"
PmProcessImages ==
    /\ pmPc = "process"
    /\ \E r \in {ProcessAll(images, 1, pmScale)} :
       \E t \in {TrimWhitespace(images[1])} :
           /\ images' = r.images
           /\ imageScale' = IF t.err = NoError THEN ImageScaleOf(t.image) ELSE imageScale
           /\ pmErr' = r.err
           /\ pmPc' = IF r.err = NoError THEN "shadow" ELSE "finally"
    /\ UNCHANGED <<pmFiles, pmShadowFile, pmScale, shadowImage, spriteSheet,
                   pmSaved, pmDisposed>>
    /\ UNCHANGED pmForeign

\* The shadow: TrimWhitespace, then ResizeWithAspect to
\* Math.Max(shadowImage.Width, shadowImage.Height) * imageScale; scaleOfImage
\* is the double imageScale
ProcessShadow(shadow, scaleOfImage, scale) ==
    LET t == TrimWhitespace(shadow)
        targetSize == DMul(DInt(MathMax(t.image.w, t.image.h)), scaleOfImage)
    IN  IF t.err # NoError THEN [err |-> t.err, image |-> t.image]
        ELSE Outcome(ResizeWithAspect(t.image, targetSize, DOfRational(scale)))

PmProcessShadow ==
    /\ pmPc = "shadow"
    /\ IF shadowImage = Null
       THEN /\ pmPc' = "compose"
            /\ UNCHANGED <<shadowImage, pmErr>>
       ELSE \E r \in {ProcessShadow(shadowImage, imageScale, pmScale)} :
                /\ shadowImage' = r.image
                /\ pmErr' = r.err
                /\ pmPc' = IF r.err = NoError THEN "compose" ELSE "finally"
    /\ UNCHANGED <<pmFiles, pmShadowFile, pmScale, images, imageScale,
                   spriteSheet, pmSaved, pmDisposed>>
    /\ UNCHANGED pmForeign

\* int width = images.Count * images[0].Width; int height = images[0].Height
SheetSize(imgs) == [w |-> Len(imgs) * imgs[1].w, h |-> imgs[1].h]

\* new Point(i * images[i].Width, 0), for the 1-based index i
FramePosition(imgs, i) == (i - 1) * imgs[i].w

\* the drawing loop: frame i is drawn at (i * images[i].Width, 0)
RECURSIVE ComposeFrames(_, _, _)
ComposeFrames(sheet, imgs, i) ==
    IF i > Len(imgs)
    THEN [err |-> NoError, image |-> sheet]
    ELSE LET d == DrawImage(sheet, imgs[i], FramePosition(imgs, i), 0)
         IN  IF d.err # NoError THEN d ELSE ComposeFrames(d.image, imgs, i + 1)

PmComposeIgnoresError ==
    /\ pmPc = "compose"
    /\ \E size \in {SheetSize(images)} :
       \E r \in {ComposeFrames(NewImage(size.w, size.h), images, 1)} :
           /\ spriteSheet' = r.image
           /\ pmErr' = r.err
           /\ pmPc' = "save"
    /\ UNCHANGED <<pmFiles, pmShadowFile, pmScale, images, shadowImage, imageScale,
                   pmSaved, pmDisposed>>
    /\ UNCHANGED pmForeign
PmCompose ==
    /\ pmPc = "compose"
    /\ \E size \in {SheetSize(images)} :
       \E r \in {ComposeFrames(NewImage(size.w, size.h), images, 1)} :
           /\ spriteSheet' = r.image
           /\ pmErr' = r.err
           /\ pmPc' = IF r.err = NoError THEN "save" ELSE "finally"
    /\ UNCHANGED <<pmFiles, pmShadowFile, pmScale, images, shadowImage, imageScale,
                   pmSaved, pmDisposed>>
    /\ UNCHANGED pmForeign

\* await spriteSheet.SaveAsPngAsync(outputPath)
PmSave ==
    /\ pmPc = "save"
    /\ pmSaved' = Append(pmSaved, [file |-> "texture-processed", image |-> spriteSheet])
    /\ pmPc' = "saveShadow"
    /\ UNCHANGED <<pmFiles, pmShadowFile, pmScale, images, shadowImage, imageScale,
                   spriteSheet, pmDisposed, pmErr>>
    /\ UNCHANGED pmForeign

\* if (shadowImage != null) await shadowImage.SaveAsPngAsync(shadowOutputPath)
PmSaveShadow ==
    /\ pmPc = "saveShadow"
    /\ pmSaved' = IF shadowImage = Null THEN pmSaved
                  ELSE Append(pmSaved, [file |-> "shadow-processed", image |-> shadowImage])
    /\ pmPc' = "finally"
    /\ UNCHANGED <<pmFiles, pmShadowFile, pmScale, images, shadowImage, imageScale,
                   spriteSheet, pmDisposed, pmErr>>
    /\ UNCHANGED pmForeign

\* Leaving the try block: the using declaration disposes spriteSheet, the
\* finally block disposes every image of the list.
PmFinally ==
    /\ pmPc = "finally"
    /\ pmDisposed' = pmDisposed
                        \cup {<<"image", i>> : i \in 1 .. Len(images)}
                        \cup (IF spriteSheet = Null THEN {} ELSE {<<"spriteSheet", 0>>})
    /\ pmPc' = IF pmErr = NoError THEN "returned" ELSE "thrown"
    /\ UNCHANGED <<pmFiles, pmShadowFile, pmScale, images, shadowImage, imageScale,
                   spriteSheet, pmSaved, pmErr>>
    /\ UNCHANGED pmForeign

PmNext ==
    \/ PmLoad
    \/ PmLoadShadow
    \/ PmValidate
    \/ PmProcessImages
    \/ PmProcessShadow
    \/ PmCompose
    \/ PmSave
    \/ PmSaveShadow
    \/ PmFinally

-----------------------------------------------------------------------------
(* Program.ProcessAlignment(string) of the picture processor, and the      *)
(* --alignment option that calls it.  A string is a sequence of            *)
(* one-character strings.                                                  *)

UpperCase == <<"A", "B", "C", "D", "E", "F", "G", "H", "I", "J", "K", "L", "M",
               "N", "O", "P", "Q", "R", "S", "T", "U", "V", "W", "X", "Y", "Z">>
LowerCase == <<"a", "b", "c", "d", "e", "f", "g", "h", "i", "j", "k", "l", "m",
               "n", "o", "p", "q", "r", "s", "t", "u", "v", "w", "x", "y", "z">>

IsUpper(c) == \E i \in 1 .. 26 : UpperCase[i] = c
IsLower(c) == \E i \in 1 .. 26 : LowerCase[i] = c
LowerOf(c) == IF IsUpper(c) THEN LowerCase[CHOOSE i \in 1 .. 26 : UpperCase[i] = c] ELSE c
UpperOf(c) == IF IsLower(c) THEN UpperCase[CHOOSE i \in 1 .. 26 : LowerCase[i] = c] ELSE c

\* the white-space characters tried
WhiteSpace == {" "}

\* string.Trim(): leading and trailing white space removed
RECURSIVE TrimStart(_)
TrimStart(s) == IF s # <<>> /\ Head(s) \in WhiteSpace THEN TrimStart(Tail(s)) ELSE s
RECURSIVE TrimEnd(_)
TrimEnd(s) ==
    IF s # <<>> /\ s[Len(s)] \in WhiteSpace THEN TrimEnd(SubSeq(s, 1, Len(s) - 1)) ELSE s
Trim(s) == TrimEnd(TrimStart(s))

\* The cultures the process may run under: one with the casing of the
\* invariant culture and one with Turkic casing (tr, az), where the lower
\* case of I is the dotless i, U+0131, written "i-dotless" here.
Cultures == {"en-US", "tr-TR"}
DotlessI == "i-dotless"

\* char.ToLower(c, culture) on the letters A to Z
CultureLowerOf(c, culture) ==
    IF culture = "tr-TR" /\ c = "I" THEN DotlessI ELSE LowerOf(c)

\* string.ToLower(): the lower case of the current culture
ToLower(s) == [i \in 1 .. Len(s) |-> CultureLowerOf(s[i], currentCulture)]

\* string.Replace(c, ""), for a one-character string c
RemoveChar(s, c) ==
    LET keep(x) == x # c
    IN  SelectSeq(s, keep)

\* string.Contains(t)
Contains(s, t) == \E i \in 0 .. Len(s) - Len(t) : SubSeq(s, i + 1, i + Len(t)) = t

tokCenter == <<"c", "e", "n", "t", "e", "r">>
tokMiddle == <<"m", "i", "d", "d", "l", "e">>
tokTop == <<"t", "o", "p">>
tokLeft == <<"l", "e", "f", "t">>
tokBottom == <<"b", "o", "t", "t", "o", "m">>
tokRight == <<"r", "i", "g", "h", "t">>

\* alignment.Trim().ToLower().Replace("-", "").Replace("_", "")
NormalizeKeepsUnderscore(alignment) == RemoveChar(ToLower(Trim(alignment)), "-")
Normalize(alignment) == RemoveChar(RemoveChar(ToLower(Trim(alignment)), "-"), "_")

Zero == R(0, 1)
Half == R(1, 2)
One == R(1, 1)

\* the chain of Contains tests on the normalized string a
AnchorOfDirectionsFirst(a) ==
    IF Contains(a, tokLeft) THEN
        IF Contains(a, tokTop) THEN <<Zero, Zero>>
        ELSE IF Contains(a, tokBottom) THEN <<Zero, One>>
        ELSE <<Zero, Half>>
    ELSE IF Contains(a, tokRight) THEN
        IF Contains(a, tokTop) THEN <<One, Zero>>
        ELSE IF Contains(a, tokBottom) THEN <<One, One>>
        ELSE <<One, Half>>
    ELSE IF Contains(a, tokTop) THEN <<Half, Zero>>
    ELSE IF Contains(a, tokBottom) THEN <<Half, One>>
    ELSE IF Contains(a, tokCenter) \/ Contains(a, tokMiddle) THEN <<Half, Half>>
    ELSE <<Zero, Zero>>

AnchorOfRightLikeLeft(a) ==
    IF Contains(a, tokCenter) \/ Contains(a, tokMiddle) THEN
        IF Contains(a, tokTop) THEN <<Half, Zero>>
        ELSE IF Contains(a, tokLeft) THEN <<Zero, Half>>
        ELSE IF Contains(a, tokBottom) THEN <<Half, One>>
        ELSE IF Contains(a, tokRight) THEN <<One, Half>>
        ELSE <<Half, Half>>
    ELSE IF Contains(a, tokLeft) \/ Contains(a, tokRight) THEN
        IF Contains(a, tokTop) THEN <<Zero, Zero>>
        ELSE IF Contains(a, tokBottom) THEN <<Zero, One>>
        ELSE <<Zero, Half>>
    ELSE IF Contains(a, tokTop) THEN <<Half, Zero>>
    ELSE IF Contains(a, tokBottom) THEN <<Half, One>>
    ELSE <<Zero, Zero>>

AnchorOf(a) ==
    IF Contains(a, tokCenter) \/ Contains(a, tokMiddle) THEN
        IF Contains(a, tokTop) THEN <<Half, Zero>>
        ELSE IF Contains(a, tokLeft) THEN <<Zero, Half>>
        ELSE IF Contains(a, tokBottom) THEN <<Half, One>>
        ELSE IF Contains(a, tokRight) THEN <<One, Half>>
        ELSE <<Half, Half>>
    ELSE IF Contains(a, tokLeft) THEN
        IF Contains(a, tokTop) THEN <<Zero, Zero>>
        ELSE IF Contains(a, tokBottom) THEN <<Zero, One>>
        ELSE <<Zero, Half>>
    ELSE IF Contains(a, tokRight) THEN
        IF Contains(a, tokTop) THEN <<One, Zero>>
        ELSE IF Contains(a, tokBottom) THEN <<One, One>>
        ELSE <<One, Half>>
    ELSE IF Contains(a, tokTop) THEN <<Half, Zero>>
    ELSE IF Contains(a, tokBottom) THEN <<Half, One>>
    ELSE <<Zero, Zero>>

\* string.IsNullOrEmpty(alignment)
IsNullOrWhiteSpace(alignment) == Trim(alignment) = <<>>
IsNullOrEmpty(alignment) == alignment = <<>>

\* Program.ProcessAlignment(alignment): the anchor, or the exception thrown
ProgramProcessAlignment(alignment) ==
    IF IsNullOrEmpty(alignment)
    THEN [err |-> "ArgumentNullException", anchor |-> NullAnchor]
    ELSE [err |-> NoError, anchor |-> AnchorOf(Normalize(alignment))]

\* The option --alignment: (0, 0) when the command line holds no token for
\* it, ProcessAlignment(token.Value) otherwise.
AlignmentOption(given, value) ==
    IF ~given THEN [err |-> NoError, anchor |-> <<Zero, Zero>>]
    ELSE ProgramProcessAlignment(value)

-----------------------------------------------------------------------------
(* Harness: alignment requests *)

\* what requests are written from: the six tokens, a capitalised token with
\* a hyphen, a letter that belongs to no token where it stands, a space
Pieces == {tokCenter, tokMiddle, tokTop, tokLeft, tokBottom, tokRight,
           <<"T", "o", "p", "-">>, <<"x">>, <<" ">>}

RECURSIVE Concat(_)
Concat(ss) == IF ss = <<>> THEN <<>> ELSE Head(ss) \o Concat(Tail(ss))

Requests == {Concat(ps) : ps \in UNION {Tuples(Pieces, n) : n \in 0 .. MaxPieces}}

\* the requests that are edited
EditBases == {<<>>, <<"x">>, <<"-">>, tokTop, <<"L", "e", "f", "t">>,
              tokCenter \o <<"-">> \o tokTop, tokBottom \o <<" ">> \o tokRight}

\* the punctuation and separator characters inserted and removed
EditChars == {"-", "_", " ", "."}

NoEdits == [n |-> 0, kinds |-> {}]
Edited(kind) == [n |-> paEdits.n + 1, kinds |-> paEdits.kinds \cup {kind}]

PaIdle ==
    /\ paGiven = FALSE
    /\ paOriginal = <<>>
    /\ paRequest = <<>>
    /\ paEdits = NoEdits
    /\ paOut = [err |-> NoError, anchor |-> NullAnchor]
    /\ paOrigOut = [err |-> NoError, anchor |-> NullAnchor]
    /\ paPc = "idle"

PaStart(requests) ==
    /\ paGiven \in BOOLEAN
    /\ paOriginal \in (IF paGiven THEN requests ELSE {<<>>})
    /\ paRequest = paOriginal
    /\ paEdits = NoEdits
    /\ paOut = [err |-> NoError, anchor |-> NullAnchor]
    /\ paOrigOut = [err |-> NoError, anchor |-> NullAnchor]
    /\ paPc = "edit"

PaInit == PaStart(Requests)
PaEditInit == PaStart(EditBases)

InsertAt(s, i, c) == SubSeq(s, 1, i) \o <<c>> \o SubSeq(s, i + 1, Len(s))
RemoveAt(s, i) == SubSeq(s, 1, i - 1) \o SubSeq(s, i + 1, Len(s))
FlipCase(c) == IF IsUpper(c) THEN LowerOf(c) ELSE UpperOf(c)

\* One edit of the request before it is given: the case of a letter is
\* changed, or a punctuation character is inserted or removed.
PaEdit ==
    /\ paPc = "edit"
    /\ paGiven
    /\ paEdits.n < MaxEdits
    /\ \/ \E i \in 1 .. Len(paRequest) :
            /\ IsUpper(paRequest[i]) \/ IsLower(paRequest[i])
            /\ paRequest' = [paRequest EXCEPT ![i] = FlipCase(paRequest[i])]
            /\ paEdits' = Edited("case")
       \/ \E i \in 0 .. Len(paRequest), c \in EditChars :
            /\ paRequest' = InsertAt(paRequest, i, c)
            /\ paEdits' = Edited(c)
       \/ \E i \in 1 .. Len(paRequest) :
            /\ paRequest[i] \in EditChars
            /\ paRequest' = RemoveAt(paRequest, i)
            /\ paEdits' = Edited(paRequest[i])
    /\ UNCHANGED <<paGiven, paOriginal, paOut, paOrigOut, paPc>>
    /\ UNCHANGED paForeign

\* the command line is parsed: the option's parser runs on the request
PaCall ==
    /\ paPc = "edit"
    /\ paOut' = AlignmentOption(paGiven, paRequest)
    /\ paOrigOut' = AlignmentOption(paGiven, paOriginal)
    /\ paPc' = "done"
    /\ UNCHANGED <<paGiven, paOriginal, paRequest, paEdits>>
    /\ UNCHANGED paForeign

PaNext == PaCall

PaEditNext ==
    \/ PaEdit
    \/ PaCall

-----------------------------------------------------------------------------
(* Processor.SuggestAlignment, ProcessAlignment and ProcessShadowAlignment *)
(* of the picture processor.  They read the dimensions of the buffers only, *)
(* and compute in doubles: the literal 0.04 is the double nearest to 1/25,  *)
(* and every sum and product is rounded to a double as the code makes it.   *)

tileSize == 64
aestheticPadding == 1

\* the literals 0.5, 2.0 and 0.04, and tileSize / 2.0
DHalf == DLiteral(1, 2)
DTwo == DInt(2)
DNudge == DLiteral(1, 25)
DHalfTile == DDivInt(DInt(tileSize), 2)

\* Math.Round(x, digits) for digits = 3: the value times 1000.0, rounded to
\* an integer, divided by 1000.0
MathRound3(x) == DDivInt(DRound(DMul(x, DInt(1000))), 1000)

\* Processor.ProcessAlignment(image, alignment)
ProcessAlignmentAxesSwapped(img, alignment) ==
    <<DMul(DMul(DHalf, DSub(DOfRational(alignment[1]), DHalf)),
           DInt(tileSize - img.h)),
      DMul(DMul(DHalf, DSub(DOfRational(alignment[2]), DHalf)),
           DInt(tileSize - img.w))>>

ProcessAlignment(img, alignment) ==
    <<DMul(DMul(DHalf, DSub(DOfRational(alignment[1]), DHalf)),
           DInt(tileSize - img.w)),
      DMul(DMul(DHalf, DSub(DOfRational(alignment[2]), DHalf)),
           DInt(tileSize - img.h))>>

\* The body of ProcessShadowAlignment after its first line, b being what
\* ProcessAlignment gave for the shadow: x1 to x3 and y1 to y3 are offsetX
\* and offsetY after each += of the code
ShadowOffsetFrom(b, width, imageOffset, shadowHeight) ==
    LET x1 == DAdd(b[1], MathRound3(DDivInt(DSub(DHalfTile,
                                                 DDivInt(DInt(width), 2)), 2)))
        x2 == DAdd(x1, DMul(DInt(width), DNudge))
        y1 == DAdd(b[2], DDivInt(DInt(shadowHeight), 2))
        x3 == DAdd(x2, imageOffset[1])
        y2 == DAdd(y1, DMul(imageOffset[2], DTwo))
        y3 == DAdd(y2, DInt(aestheticPadding))
    IN  <<x3, y3>>

\* Processor.ProcessShadowAlignment(image, imageOffset, shadowImage)
ProcessShadowAlignmentByHeight(img, imageOffset, shadowImg) ==
    ShadowOffsetFrom(ProcessAlignment(shadowImg, <<Zero, One>>), img.h,
                     imageOffset, shadowImg.h)

ProcessShadowAlignment(img, imageOffset, shadowImg) ==
    ShadowOffsetFrom(ProcessAlignment(shadowImg, <<Zero, One>>), img.w,
                     imageOffset, shadowImg.h)

\* What SuggestAlignment leaves and prints, offset being what ProcessAlignment
\* gave for the image
SuggestedFor(img, shadowImg, offset) ==
    [image |-> img,
     shadowImage |-> shadowImg,
     offset |-> offset,
     shadowOffset |-> IF shadowImg = Null THEN NullAnchor
                      ELSE ProcessShadowAlignment(img, offset, shadowImg)]

\* Processor.SuggestAlignment(image, shadowImage, alignment): the two
\* buffers as it leaves them, and the offsets it prints
SuggestAlignmentClearsImage(img, shadowImg, alignment) ==
    SuggestedFor(IF alignment = <<Half, Half>> THEN img ELSE NewImage(img.w, img.h),
                 shadowImg, ProcessAlignment(img, alignment))

SuggestAlignment(img, shadowImg, alignment) ==
    SuggestedFor(img, shadowImg, ProcessAlignment(img, alignment))

-----------------------------------------------------------------------------
(* Harness: the suggested offsets *)

\* the widths and heights tried: below, at and above the tile size
OffsetSides == {32, 64, 65}
OffsetImages == [w : OffsetSides, h : OffsetSides]
OffsetShadows == {Null, [w |-> 64, h |-> 32], [w |-> 65, h |-> 65]}
\* the alignments the --alignment option can give
GridAnchors == {Zero, Half, One} \X {Zero, Half, One}

NoOffsets == [offset |-> NullAnchor, shadowOffset |-> NullAnchor]

OfIdle ==
    /\ ofImage = [w |-> 0, h |-> 0]
    /\ ofShadow = Null
    /\ ofAlignment = <<Zero, Zero>>
    /\ ofOther = [w |-> 0, h |-> 0, x |-> Zero, y |-> Zero]
    /\ ofPrinted = NoOffsets
    /\ ofAgain = [x |-> NullAnchor, y |-> NullAnchor, shadow |-> NullAnchor]
    /\ ofPc = "idle"

OfInit ==
    /\ ofImage \in OffsetImages
    /\ ofShadow \in OffsetShadows
    /\ ofAlignment \in GridAnchors
    /\ ofOther \in {o \in [w : OffsetSides, h : OffsetSides,
                           x : {Zero, Half, One}, y : {Zero, Half, One}] :
                        o.w = o.h /\ o.x = o.y}
    /\ ofPrinted = NoOffsets
    /\ ofAgain = [x |-> NullAnchor, y |-> NullAnchor, shadow |-> NullAnchor]
    /\ ofPc = "call"

\* Processor.SuggestAlignment(image, shadowImage, alignment)
OfSuggest ==
    /\ ofPc = "call"
    /\ \E r \in {SuggestAlignment(ofImage, ofShadow, ofAlignment)} :
           ofPrinted' = [offset |-> r.offset, shadowOffset |-> r.shadowOffset]
    /\ ofPc' = "again"
    /\ UNCHANGED <<ofImage, ofShadow, ofAlignment, ofOther, ofAgain>>
    /\ UNCHANGED ofForeign

\* The same functions on arguments that differ in one axis: the other
\* height and y with the same width and x, the other width and x with the
\* same height and y, and the shadow offset for the other height with the
\* same image offset.  ofOther holds one other side and one other alignment
\* component, used for either axis.
OfAgain ==
    /\ ofPc = "again"
    /\ ofAgain' =
          [x |-> ProcessAlignment([w |-> ofImage.w, h |-> ofOther.h],
                                  <<ofAlignment[1], ofOther.y>>),
           y |-> ProcessAlignment([w |-> ofOther.w, h |-> ofImage.h],
                                  <<ofOther.x, ofAlignment[2]>>),
           shadow |-> IF ofShadow = Null THEN NullAnchor
                      ELSE ProcessShadowAlignment([w |-> ofImage.w, h |-> ofOther.h],
                                                  ofPrinted.offset, ofShadow)]
    /\ ofPc' = "done"
    /\ UNCHANGED <<ofImage, ofShadow, ofAlignment, ofOther, ofPrinted>>
    /\ UNCHANGED ofForeign

OfNext ==
    \/ OfSuggest
    \/ OfAgain

-----------------------------------------------------------------------------
(* Program.ProcessTextureSingle of the picture processor *)

NotSuggested == [image |-> Null, shadowImage |-> Null,
                 offset |-> NullAnchor, shadowOffset |-> NullAnchor]

PsInit ==
    /\ psFile \in FrameFiles
    /\ psShadowFile \in ShadowFiles
    /\ psScale \in PmScales
    /\ psAlignment \in GridAnchors
    /\ psImage = Null
    /\ psShadowImage = Null
    /\ psImageScale = DOne
    /\ psSuggested = NotSuggested
    /\ psSaved = <<>>
    /\ psDisposed = {}
    /\ psErr = NoError
    /\ psPc = "load"

PsIdle ==
    /\ psFile = Null
    /\ psShadowFile = Null
    /\ psScale = R(1, 1)
    /\ psAlignment = <<Zero, Zero>>
    /\ psImage = Null
    /\ psShadowImage = Null
    /\ psImageScale = DOne
    /\ psSuggested = NotSuggested
    /\ psSaved = <<>>
    /\ psDisposed = {}
    /\ psErr = NoError
    /\ psPc = "idle"

\* using image = Image.Load(texture); using shadowImage = shadowTexture != null ? ... : null
PsLoad ==
    /\ psPc = "load"
    /\ psImage' = psFile
    /\ psShadowImage' = psShadowFile
    /\ psPc' = "trim"
    /\ UNCHANGED <<psFile, psShadowFile, psScale, psAlignment, psImageScale,
                   psSuggested, psSaved, psDisposed, psErr>>
    /\ UNCHANGED psForeign

\* Processor.TrimWhitespace(image); imageScale = 64.0 / Math.Max(Width, Height)
PsTrim ==
    /\ psPc = "trim"
    /\ \E t \in {TrimWhitespace(psImage)} :
           /\ psImage' = t.image
           /\ psErr' = t.err
           /\ psImageScale' = IF t.err = NoError THEN ImageScaleOf(t.image)
                              ELSE psImageScale
           /\ psPc' = IF t.err = NoError THEN "resize" ELSE "dispose"
    /\ UNCHANGED <<psFile, psShadowFile, psScale, psAlignment, psShadowImage,
                   psSuggested, psSaved, psDisposed>>
    /\ UNCHANGED psForeign

\* Processor.ResizeWithAspect(image, 64, scale)
PsResize ==
    /\ psPc = "resize"
    /\ \E r \in {ResizeWithAspect(psImage, DInt(TileTarget), DOfRational(psScale))} :
           /\ psImage' = r.image
           /\ psErr' = r.err
           /\ psPc' = IF r.err = NoError THEN "shadow" ELSE "dispose"
    /\ UNCHANGED <<psFile, psShadowFile, psScale, psAlignment, psShadowImage,
                   psImageScale, psSuggested, psSaved, psDisposed>>
    /\ UNCHANGED psForeign

\* if (shadowImage != null): trim it, resize it to its share of the tile
PsShadow ==
    /\ psPc = "shadow"
    /\ IF psShadowImage = Null
       THEN /\ psPc' = "suggest"
            /\ UNCHANGED <<psShadowImage, psErr>>
       ELSE \E r \in {ProcessShadow(psShadowImage, psImageScale, psScale)} :
                /\ psShadowImage' = r.image
                /\ psErr' = r.err
                /\ psPc' = IF r.err = NoError THEN "suggest" ELSE "dispose"
    /\ UNCHANGED <<psFile, psShadowFile, psScale, psAlignment, psImage,
                   psImageScale, psSuggested, psSaved, psDisposed>>
    /\ UNCHANGED psForeign

\* Processor.SuggestAlignment(image, shadowImage, alignment)
PsSuggest ==
    /\ psPc = "suggest"
    /\ \E r \in {SuggestAlignment(psImage, psShadowImage, psAlignment)} :
           /\ psImage' = r.image
           /\ psShadowImage' = r.shadowImage
           /\ psSuggested' = [image |-> psImage, shadowImage |-> psShadowImage,
                              offset |-> r.offset, shadowOffset |-> r.shadowOffset]
    /\ psPc' = "save"
    /\ UNCHANGED <<psFile, psShadowFile, psScale, psAlignment, psImageScale,
                   psSaved, psDisposed, psErr>>
    /\ UNCHANGED psForeign

\* await image.SaveAsPngAsync(outputPath)
PsSave ==
    /\ psPc = "save"
    /\ psSaved' = Append(psSaved, [file |-> "texture-processed", image |-> psImage])
    /\ psPc' = "saveShadow"
    /\ UNCHANGED <<psFile, psShadowFile, psScale, psAlignment, psImage, psShadowImage,
                   psImageScale, psSuggested, psDisposed, psErr>>
    /\ UNCHANGED psForeign

\* if (shadowImage != null) await shadowImage.SaveAsPngAsync(shadowOutputPath)
PsSaveShadow ==
    /\ psPc = "saveShadow"
    /\ psSaved' = IF psShadowImage = Null THEN psSaved
                  ELSE Append(psSaved, [file |-> "shadow-processed",
                                        image |-> psShadowImage])
    /\ psPc' = "dispose"
    /\ UNCHANGED <<psFile, psShadowFile, psScale, psAlignment, psImage, psShadowImage,
                   psImageScale, psSuggested, psDisposed, psErr>>
    /\ UNCHANGED psForeign

\* Leaving the method, normally or by an exception: the using declarations
\* dispose shadowImage, when there is one, and image.
PsDispose ==
    /\ psPc = "dispose"
    /\ psDisposed' = psDisposed \cup {"image"}
                        \cup (IF psShadowImage = Null THEN {} ELSE {"shadowImage"})
    /\ psPc' = IF psErr = NoError THEN "returned" ELSE "thrown"
    /\ UNCHANGED <<psFile, psShadowFile, psScale, psAlignment, psImage, psShadowImage,
                   psImageScale, psSuggested, psSaved, psErr>>
    /\ UNCHANGED psForeign

PsNext ==
    \/ PsLoad
    \/ PsTrim
    \/ PsResize
    \/ PsShadow
    \/ PsSuggest
    \/ PsSave
    \/ PsSaveShadow
    \/ PsDispose

-----------------------------------------------------------------------------
(* IconProcessor.Processor.ApplyDropShadow *)

\* The pairs (shadowColor.A, alpha) whose product is a multiple of 255 and
\* for which the double shadowColor.A * (alpha / 255.0) falls just below the
\* whole quotient, so that the cast to byte gives one less.
DoubleFallsShort ==
    {<<51, 155>>, <<75, 187>>, <<85, 147>>, <<85, 171>>, <<102, 155>>, <<150, 187>>,
     <<153, 155>>, <<153, 195>>, <<165, 187>>, <<170, 147>>, <<170, 171>>, <<204, 155>>}

\* col.A = (byte)(shadowColor.A * (alpha / 255.0))
ShadowAlpha(shadowColor, alpha) ==
    IF <<Alpha(shadowColor), alpha>> \in DoubleFallsShort
    THEN (Alpha(shadowColor) * alpha) \div 255 - 1
    ELSE (Alpha(shadowColor) * alpha) \div 255

\* ChannelFallsShort[a] holds the channel values c for which, with
\* col.A = a and a fully transparent existing pixel, the single-precision
\* quotient (c * srcA + 0) / outA, srcA = outA = a / 255f, falls just below
\* c, so that the cast to byte gives c - 1 (3478 of the 255 * 256 cases).
ChannelFallsShort ==
    <<{255}, {255},
      {113, 115, 117, 119, 121, 123, 125, 127, 173, 177, 181, 185, 189, 226, 230, 234, 238, 242, 246, 250, 254},
      {255},
      {53, 55, 57, 59, 61, 63, 106, 110, 114, 118, 122, 126, 209, 212, 217, 220, 228, 236, 244, 247, 252, 255},
      {113, 115, 117, 119, 121, 123, 125, 127, 173, 177, 181, 185, 189, 226, 230, 234, 238, 242, 246, 250, 254},
      {61, 63, 89, 93, 122, 126, 153, 178, 186, 211, 219, 244, 252}, {255},
      {29, 31, 58, 62, 116, 123, 124, 232, 239, 246, 248, 253, 255},
      {53, 55, 57, 59, 61, 63, 106, 110, 114, 118, 122, 126, 209, 212, 217, 220, 228, 236, 244, 247, 252, 255},
      {29, 31, 58, 62, 95, 103, 111, 116, 124, 190, 193, 203, 206, 219, 222, 232, 235, 245, 248},
      {113, 115, 117, 119, 121, 123, 125, 127, 173, 177, 181, 185, 189, 226, 230, 234, 238, 242, 246, 250, 254},
      {31, 43, 47, 62, 86, 94, 105, 124, 161, 172, 188, 199, 210, 221, 237, 248},
      {61, 63, 89, 93, 122, 126, 153, 178, 186, 211, 219, 244, 252}, {}, {255},
      {15, 30, 60, 120, 240, 251, 253, 255},
      {29, 31, 58, 62, 116, 123, 124, 232, 239, 246, 248, 253, 255},
      {15, 30, 55, 60, 110, 115, 120, 125, 215, 220, 225, 230, 235, 240, 245, 250, 255},
      {53, 55, 57, 59, 61, 63, 106, 110, 114, 118, 122, 126, 209, 212, 217, 220, 228, 236, 244, 247, 252, 255},
      {15, 30, 49, 60, 63, 98, 101, 117, 120, 123, 126, 196, 199, 202, 205, 231, 234, 237, 240, 243, 246, 249, 252, 255},
      {29, 31, 58, 62, 95, 103, 111, 116, 124, 190, 193, 203, 206, 219, 222, 232, 235, 245, 248},
      {15, 30, 51, 60, 93, 102, 111, 120, 186, 193, 197, 204, 211, 215, 222, 229, 233, 240, 247, 251},
      {113, 115, 117, 119, 121, 123, 125, 127, 173, 177, 181, 185, 189, 226, 230, 234, 238, 242, 246, 250, 254},
      {15, 23, 30, 46, 53, 60, 85, 92, 99, 106, 113, 120, 127, 170, 175, 184, 189, 198, 212, 226, 240, 254},
      {31, 43, 47, 62, 86, 94, 105, 124, 161, 172, 188, 199, 210, 221, 237, 248},
      {15, 30, 55, 60, 87, 97, 110, 120, 161, 174, 181, 194, 207, 220, 240, 253},
      {61, 63, 89, 93, 122, 126, 153, 178, 186, 211, 219, 244, 252},
      {23, 46, 92, 103, 173, 184, 195, 206}, {}, {119, 165, 238}, {255},
      {249, 251, 253, 255}, {15, 30, 60, 120, 240, 251, 253, 255},
      {61, 121, 122, 123, 235, 242, 244, 246, 253, 255},
      {29, 31, 58, 62, 116, 123, 124, 232, 239, 246, 248, 253, 255},
      {7, 14, 28, 31, 56, 59, 62, 112, 118, 124, 224, 231, 236, 243, 248, 255},
      {15, 30, 55, 60, 110, 115, 120, 125, 215, 220, 225, 230, 235, 240, 245, 250, 255},
      {7, 14, 27, 28, 54, 56, 108, 112, 121, 125, 211, 216, 219, 224, 229, 237, 242, 247, 250, 255},
      {53, 55, 57, 59, 61, 63, 106, 110, 114, 118, 122, 126, 209, 212, 217, 220, 228, 236, 244, 247, 252, 255},
      {7, 14, 28, 51, 56, 63, 102, 105, 112, 119, 126, 204, 207, 210, 221, 224, 235, 238, 241, 249, 252, 255},
      {15, 30, 49, 60, 63, 98, 101, 117, 120, 123, 126, 196, 199, 202, 205, 231, 234, 237, 240, 243, 246, 249, 252, 255},
      {7, 14, 28, 49, 56, 59, 95, 98, 112, 115, 118, 190, 193, 196, 199, 221, 224, 227, 230, 233, 236},
      {29, 31, 58, 62, 95, 103, 111, 116, 124, 190, 193, 203, 206, 219, 222, 232, 235, 245, 248},
      {7, 14, 25, 28, 50, 56, 100, 105, 112, 117, 183, 193, 200, 207, 210, 217, 224, 227, 234, 241, 251},
      {15, 30, 51, 60, 93, 102, 111, 120, 186, 193, 197, 204, 211, 215, 222, 229, 233, 240, 247, 251},
      {7, 14, 27, 28, 54, 55, 56, 87, 89, 108, 110, 112, 174, 178, 193, 197, 201, 216, 220, 224, 235, 239, 243},
      {113, 115, 117, 119, 121, 123, 125, 127, 173, 177, 181, 185, 189, 226, 230, 234, 238, 242, 246, 250, 254},
      {11, 22, 44, 57, 88, 101, 114, 127, 176, 189, 202, 215, 228, 241, 254},
      {15, 23, 30, 46, 53, 60, 85, 92, 99, 106, 113, 120, 127, 170, 175, 184, 189, 198, 212, 226, 240, 254},
      {}, {31, 43, 47, 62, 86, 94, 105, 124, 161, 172, 188, 199, 210, 221, 237, 248},
      {11, 22, 41, 44, 47, 79, 82, 85, 88, 91, 94, 158, 164, 170, 176, 182, 188},
      {15, 30, 55, 60, 87, 97, 110, 120, 161, 174, 181, 194, 207, 220, 240, 253},
      {27, 43, 54, 75, 86, 97, 108, 119, 150, 165, 172, 187, 194, 216, 238},
      {61, 63, 89, 93, 122, 126, 153, 178, 186, 211, 219, 244, 252},
      {51, 83, 102, 121, 147, 166, 185, 204, 223, 242},
      {23, 46, 92, 103, 173, 184, 195, 206}, {59, 91, 118, 155, 182, 209, 236}, {},
      {99, 175, 198}, {119, 165, 238}, {}, {255}, {253, 255}, {249, 251, 253, 255},
      {249, 251, 253, 255}, {15, 30, 60, 120, 240, 251, 253, 255},
      {15, 30, 60, 61, 120, 121, 122, 240, 242, 244, 251, 253, 255},
      {61, 121, 122, 123, 235, 242, 244, 246, 253, 255},
      {61, 115, 122, 123, 230, 237, 244, 246, 253, 255},
      {29, 31, 58, 62, 116, 123, 124, 232, 239, 246, 248, 253, 255},
      {31, 62, 117, 124, 227, 229, 234, 241, 248, 255},
      {7, 14, 28, 31, 56, 59, 62, 112, 118, 124, 224, 231, 236, 243, 248, 255},
      {57, 113, 114, 119, 125, 221, 226, 228, 233, 238, 243, 250, 255},
      {15, 30, 55, 60, 110, 115, 120, 125, 215, 220, 225, 230, 235, 240, 245, 250, 255},
      {15, 29, 30, 53, 58, 60, 106, 111, 116, 120, 125, 212, 217, 222, 227, 232, 237, 240, 245, 250, 255},
      {7, 14, 27, 28, 54, 56, 108, 112, 121, 125, 211, 216, 219, 224, 229, 237, 242, 247, 250, 255},
      {105, 109, 113, 117, 210, 218, 226, 231, 234, 239, 247, 255},
      {53, 55, 57, 59, 61, 63, 106, 110, 114, 118, 122, 126, 209, 212, 217, 220, 228, 236, 244, 247, 252, 255},
      {13, 26, 52, 61, 63, 104, 111, 115, 122, 126, 208, 211, 219, 222, 230, 233, 241, 244, 252, 255},
      {7, 14, 28, 51, 56, 63, 102, 105, 112, 119, 126, 204, 207, 210, 221, 224, 235, 238, 241, 249, 252, 255},
      {25, 29, 50, 58, 63, 100, 103, 113, 116, 123, 126, 200, 203, 206, 209, 223, 226, 229, 232, 246, 249, 252, 255},
      {15, 30, 49, 60, 63, 98, 101, 117, 120, 123, 126, 196, 199, 202, 205, 231, 234, 237, 240, 243, 246, 249, 252, 255},
      {},
      {7, 14, 28, 49, 56, 59, 95, 98, 112, 115, 118, 190, 193, 196, 199, 221, 224, 227, 230, 233, 236},
      {51, 55, 99, 102, 110, 113, 121, 198, 201, 204, 220, 223, 226, 239, 242, 245},
      {29, 31, 58, 62, 95, 103, 111, 116, 124, 190, 193, 203, 206, 219, 222, 232, 235, 245, 248},
      {13, 26, 31, 47, 52, 57, 62, 94, 99, 104, 109, 114, 119, 124, 185, 188, 198, 208, 218, 228, 238, 248},
      {7, 14, 25, 28, 50, 56, 100, 105, 112, 117, 183, 193, 200, 207, 210, 217, 224, 227, 234, 241, 251},
      {27, 47, 54, 61, 94, 101, 108, 115, 122, 181, 188, 195, 202, 209, 216, 223, 230, 237, 244, 251},
      {15, 30, 51, 60, 93, 102, 111, 120, 186, 193, 197, 204, 211, 215, 222, 229, 233, 240, 247, 251},
      {23, 29, 45, 46, 58, 59, 90, 92, 103, 105, 116, 118, 180, 184, 195, 206, 210, 221, 232, 236, 247},
      {7, 14, 27, 28, 54, 55, 56, 87, 89, 108, 110, 112, 174, 178, 193, 197, 201, 216, 220, 224, 235, 239, 243},
      {195, 199, 203, 207, 211, 215, 219, 223},
      {113, 115, 117, 119, 121, 123, 125, 127, 173, 177, 181, 185, 189, 226, 230, 234, 238, 242, 246, 250, 254},
      {13, 26, 51, 52, 53, 85, 102, 104, 106, 123, 125, 127, 170, 183, 187, 191, 204, 208, 212, 225, 229, 233, 246, 250, 254},
      {11, 22, 44, 57, 88, 101, 114, 127, 176, 189, 202, 215, 228, 241, 254},
      {25, 50, 59, 91, 100, 109, 118, 127, 173, 182, 191, 200, 209, 218, 227, 236, 245, 254},
      {15, 23, 30, 46, 53, 60, 85, 92, 99, 106, 113, 120, 127, 170, 175, 184, 189, 198, 212, 226, 240, 254},
      {49, 55, 61, 81, 93, 98, 110, 122, 127, 162, 167, 186, 191, 196, 215, 220, 225, 244, 249, 254},
      {}, {49, 53, 85, 98, 106, 119, 165, 170, 191, 196, 212, 217, 238, 243},
      {31, 43, 47, 62, 86, 94, 105, 124, 161, 172, 188, 199, 210, 221, 237, 248},
      {13, 21, 26, 42, 52, 84, 87, 101, 104, 121, 168, 174, 185, 191, 202, 208, 225, 242},
      {11, 22, 41, 44, 47, 79, 82, 85, 88, 91, 94, 158, 164, 170, 176, 182, 188},
      {43, 57, 86, 89, 111, 114, 153, 172, 178, 197, 203, 222, 228, 247, 253},
      {15, 30, 55, 60, 87, 97, 110, 120, 161, 174, 181, 194, 207, 220, 240, 253},
      {29, 39, 58, 78, 85, 109, 116, 123, 156, 163, 170, 218, 225, 232, 239, 246, 253},
      {27, 43, 54, 75, 86, 97, 108, 119, 150, 165, 172, 187, 194, 216, 238},
      {99, 103, 167, 175, 198, 206, 229, 237},
      {61, 63, 89, 93, 122, 126, 153, 178, 186, 211, 219, 244, 252},
      {63, 73, 95, 117, 126, 146, 181, 190, 199, 234, 243, 252},
      {51, 83, 102, 121, 147, 166, 185, 204, 223, 242},
      {25, 50, 100, 105, 159, 169, 200, 210, 241, 251},
      {23, 46, 92, 103, 173, 184, 195, 206},
      {113, 119, 125, 165, 177, 189, 226, 238, 250}, {59, 91, 118, 155, 182, 209, 236},
      {}, {}, {37, 74, 148, 207}, {99, 175, 198}, {121, 185, 242}, {119, 165, 238}, {},
      {}, {}, {255}, {255}, {253, 255}, {251, 253, 255}, {249, 251, 253, 255},
      {247, 249, 251, 253, 255}, {249, 251, 253, 255}, {249, 251, 253, 255},
      {15, 30, 60, 120, 240, 251, 253, 255},
      {15, 30, 60, 120, 121, 240, 242, 251, 253, 255},
      {15, 30, 60, 61, 120, 121, 122, 240, 242, 244, 251, 253, 255},
      {61, 121, 122, 242, 244, 253, 255},
      {61, 121, 122, 123, 235, 242, 244, 246, 253, 255},
      {61, 122, 123, 235, 237, 244, 246, 253, 255},
      {61, 115, 122, 123, 230, 237, 244, 246, 253, 255},
      {29, 58, 115, 116, 123, 230, 232, 237, 239, 246, 253, 255},
      {29, 31, 58, 62, 116, 123, 124, 232, 239, 246, 248, 253, 255},
      {29, 31, 58, 62, 116, 117, 123, 124, 227, 232, 234, 239, 241, 246, 248, 253, 255},
      {31, 62, 117, 124, 227, 229, 234, 241, 248, 255},
      {31, 59, 62, 118, 124, 229, 236, 241, 243, 248, 255},
      {7, 14, 28, 31, 56, 59, 62, 112, 118, 124, 224, 231, 236, 243, 248, 255},
      {31, 62, 113, 119, 124, 125, 221, 226, 231, 238, 243, 248, 250, 255},
      {57, 113, 114, 119, 125, 221, 226, 228, 233, 238, 243, 250, 255},
      {15, 30, 57, 60, 109, 114, 119, 120, 125, 218, 223, 228, 233, 238, 240, 245, 250, 255},
      {15, 30, 55, 60, 110, 115, 120, 125, 215, 220, 225, 230, 235, 240, 245, 250, 255},
      {15, 30, 55, 60, 110, 115, 120, 125, 215, 220, 225, 230, 235, 240, 245, 250, 255},
      {15, 29, 30, 53, 58, 60, 106, 111, 116, 120, 125, 212, 217, 222, 227, 232, 237, 240, 245, 250, 255},
      {7, 14, 28, 29, 56, 58, 107, 112, 116, 121, 125, 214, 219, 224, 227, 232, 237, 242, 250, 255},
      {7, 14, 27, 28, 54, 56, 108, 112, 121, 125, 211, 216, 219, 224, 229, 237, 242, 247, 250, 255},
      {13, 26, 27, 52, 54, 104, 108, 113, 117, 121, 208, 213, 216, 221, 226, 229, 234, 242, 247, 255},
      {105, 109, 113, 117, 210, 218, 226, 231, 234, 239, 247, 255},
      {53, 57, 61, 106, 114, 122, 207, 212, 215, 223, 228, 231, 239, 244, 247, 255},
      {53, 55, 57, 59, 61, 63, 106, 110, 114, 118, 122, 126, 209, 212, 217, 220, 228, 236, 244, 247, 252, 255},
      {59, 61, 63, 103, 107, 111, 118, 122, 126, 203, 206, 214, 217, 222, 225, 233, 236, 244, 252, 255},
      {13, 26, 52, 61, 63, 104, 111, 115, 122, 126, 208, 211, 219, 222, 230, 233, 241, 244, 252, 255},
      {27, 54, 63, 101, 108, 115, 119, 126, 202, 205, 213, 216, 227, 230, 238, 241, 252, 255},
      {7, 14, 28, 51, 56, 63, 102, 105, 112, 119, 126, 204, 207, 210, 221, 224, 235, 238, 241, 249, 252, 255},
      {29, 53, 58, 63, 99, 106, 109, 116, 119, 126, 198, 201, 212, 215, 218, 229, 232, 235, 238, 249, 252, 255},
      {25, 29, 50, 58, 63, 100, 103, 113, 116, 123, 126, 200, 203, 206, 209, 223, 226, 229, 232, 246, 249, 252, 255},
      {13, 26, 52, 55, 63, 104, 107, 110, 123, 126, 208, 211, 214, 217, 220, 223, 243, 246, 249, 252, 255},
      {15, 30, 49, 60, 63, 98, 101, 117, 120, 123, 126, 196, 199, 202, 205, 231, 234, 237, 240, 243, 246, 249, 252, 255},
      {15, 27, 30, 51, 54, 57, 60, 63, 99, 102, 105, 108, 111, 114, 117, 120, 123, 126, 195, 198, 201, 204, 207, 210, 213, 216, 219, 222, 225, 228, 231, 234, 237, 240, 243, 246, 249, 252, 255},
      {},
      {7, 14, 25, 28, 50, 53, 56, 97, 100, 103, 106, 109, 112, 194, 197, 200, 203, 206, 209, 212, 215, 218, 221, 224},
      {7, 14, 28, 49, 56, 59, 95, 98, 112, 115, 118, 190, 193, 196, 199, 221, 224, 227, 230, 233, 236},
      {3, 6, 12, 13, 24, 26, 48, 52, 59, 96, 104, 107, 118, 121, 189, 192, 208, 211, 214, 217, 233, 236, 239, 242},
      {51, 55, 99, 102, 110, 113, 121, 198, 201, 204, 220, 223, 226, 239, 242, 245},
      {27, 31, 54, 62, 97, 105, 108, 113, 121, 124, 194, 197, 210, 213, 216, 226, 229, 242, 245, 248},
      {29, 31, 58, 62, 95, 103, 111, 116, 124, 190, 193, 203, 206, 219, 222, 232, 235, 245, 248},
      {31, 53, 62, 101, 106, 111, 119, 124, 189, 199, 202, 212, 215, 222, 225, 235, 238, 245, 248},
      {13, 26, 31, 47, 52, 57, 62, 94, 99, 104, 109, 114, 119, 124, 185, 188, 198, 208, 218, 228, 238, 248},
      {23, 31, 46, 51, 62, 92, 97, 102, 107, 124, 184, 187, 194, 204, 211, 214, 221, 231, 241, 248, 251},
      {7, 14, 25, 28, 50, 56, 100, 105, 112, 117, 183, 193, 200, 207, 210, 217, 224, 227, 234, 241, 251},
      {3, 6, 12, 24, 48, 55, 61, 91, 96, 103, 110, 117, 122, 182, 189, 192, 199, 206, 213, 220, 227, 234, 237, 244, 251},
      {27, 47, 54, 61, 94, 101, 108, 115, 122, 181, 188, 195, 202, 209, 216, 223, 230, 237, 244, 251},
      {15, 30, 45, 53, 60, 61, 90, 97, 106, 113, 120, 122, 180, 187, 194, 201, 212, 219, 226, 233, 240, 244, 251},
      {15, 30, 51, 60, 93, 102, 111, 120, 186, 193, 197, 204, 211, 215, 222, 229, 233, 240, 247, 251},
      {15, 30, 49, 59, 60, 98, 107, 109, 118, 120, 185, 196, 203, 207, 214, 218, 225, 229, 236, 240, 247, 251},
      {23, 29, 45, 46, 58, 59, 90, 92, 103, 105, 116, 118, 180, 184, 195, 206, 210, 221, 232, 236, 247},
      {7, 14, 28, 29, 56, 57, 58, 97, 99, 112, 114, 116, 179, 183, 194, 198, 209, 213, 224, 228, 232, 243, 247},
      {7, 14, 27, 28, 54, 55, 56, 87, 89, 108, 110, 112, 174, 178, 193, 197, 201, 216, 220, 224, 235, 239, 243},
      {3, 6, 12, 13, 24, 25, 26, 48, 49, 50, 51, 52, 96, 98, 100, 102, 104, 173, 192, 196, 200, 204, 208, 227, 231, 235, 239},
      {195, 199, 203, 207, 211, 215, 219, 223},
      {87, 91, 95, 99, 103, 107, 111, 115, 119, 123, 127, 174, 182, 190, 198, 206, 214, 222, 230, 238, 246, 254},
      {113, 115, 117, 119, 121, 123, 125, 127, 173, 177, 181, 185, 189, 226, 230, 234, 238, 242, 246, 250, 254},
      {23, 45, 46, 47, 90, 92, 94, 121, 123, 125, 127, 180, 184, 188, 209, 213, 217, 221, 242, 246, 250, 254},
      {13, 26, 51, 52, 53, 85, 102, 104, 106, 123, 125, 127, 170, 183, 187, 191, 204, 208, 212, 225, 229, 233, 246, 250, 254},
      {55, 93, 95, 110, 125, 127, 169, 173, 186, 190, 203, 207, 220, 233, 237, 250, 254},
      {11, 22, 44, 57, 88, 101, 114, 127, 176, 189, 202, 215, 228, 241, 254},
      {3, 6, 12, 24, 29, 47, 48, 58, 83, 85, 94, 96, 105, 116, 127, 166, 170, 179, 188, 192, 201, 210, 223, 232, 241, 245, 254},
      {25, 50, 59, 91, 100, 109, 118, 127, 173, 182, 191, 200, 209, 218, 227, 236, 245, 254},
      {13, 26, 52, 95, 104, 111, 127, 167, 181, 190, 199, 208, 213, 222, 231, 245, 254},
      {15, 23, 30, 46, 53, 60, 85, 92, 99, 106, 113, 120, 127, 170, 175, 184, 189, 198, 212, 226, 240, 254},
      {27, 41, 54, 82, 89, 108, 115, 127, 164, 178, 183, 197, 211, 216, 230, 235, 249, 254},
      {49, 55, 61, 81, 93, 98, 110, 122, 127, 162, 167, 186, 191, 196, 215, 220, 225, 244, 249, 254},
      {7, 14, 28, 45, 56, 61, 85, 90, 95, 112, 117, 122, 127, 165, 170, 175, 180, 185, 190, 224, 229, 234, 239, 244, 249, 254},
      {},
      {3, 6, 12, 24, 43, 48, 57, 86, 91, 96, 109, 114, 172, 177, 182, 187, 192, 218, 223, 228, 233},
      {49, 53, 85, 98, 106, 119, 165, 170, 191, 196, 212, 217, 238, 243},
      {21, 25, 29, 42, 50, 58, 84, 100, 116, 163, 168, 179, 195, 200, 211, 227, 232, 243},
      {31, 43, 47, 62, 86, 94, 105, 124, 161, 172, 188, 199, 210, 221, 237, 248},
      {31, 55, 62, 85, 99, 110, 124, 159, 170, 181, 198, 209, 220, 231, 237, 248},
      {13, 21, 26, 42, 52, 84, 87, 101, 104, 121, 168, 174, 185, 191, 202, 208, 225, 242},
      {5, 10, 20, 40, 43, 59, 80, 83, 86, 115, 118, 160, 166, 172, 195, 201, 207, 230, 236},
      {11, 22, 41, 44, 47, 79, 82, 85, 88, 91, 94, 158, 164, 170, 176, 182, 188},
      {3, 6, 12, 21, 24, 42, 45, 48, 81, 84, 87, 90, 93, 96, 162, 168, 174, 180, 186, 192, 229, 235, 241, 247, 253},
      {43, 57, 86, 89, 111, 114, 153, 172, 178, 197, 203, 222, 228, 247, 253},
      {11, 15, 22, 30, 44, 60, 85, 88, 101, 117, 120, 157, 170, 176, 189, 202, 221, 234, 240, 253},
      {15, 30, 55, 60, 87, 97, 110, 120, 161, 174, 181, 194, 207, 220, 240, 253},
      {19, 38, 43, 76, 86, 113, 123, 152, 172, 179, 199, 219, 226, 246, 253},
      {29, 39, 58, 78, 85, 109, 116, 123, 156, 163, 170, 218, 225, 232, 239, 246, 253},
      {7, 14, 28, 49, 56, 98, 105, 112, 153, 196, 203, 210, 217, 224},
      {27, 43, 54, 75, 86, 97, 108, 119, 150, 165, 172, 187, 194, 216, 238},
      {3, 6, 12, 24, 25, 48, 50, 81, 96, 100, 115, 162, 177, 192, 200, 215, 230, 245},
      {99, 103, 167, 175, 198, 206, 229, 237},
      {39, 43, 47, 51, 55, 59, 63, 78, 86, 94, 102, 110, 118, 126, 156, 172, 188, 204, 220, 236, 252},
      {61, 63, 89, 93, 122, 126, 153, 178, 186, 211, 219, 244, 252},
      {63, 79, 109, 126, 158, 175, 201, 218, 235, 252},
      {63, 73, 95, 117, 126, 146, 181, 190, 199, 234, 243, 252},
      {5, 10, 20, 40, 80, 103, 151, 160, 197, 206, 215},
      {51, 83, 102, 121, 147, 166, 185, 204, 223, 242},
      {3, 6, 12, 24, 48, 53, 96, 101, 106, 111, 143, 153, 192, 202, 212, 222},
      {25, 50, 100, 105, 159, 169, 200, 210, 241, 251},
      {9, 13, 18, 26, 36, 52, 72, 104, 144, 155, 187, 208, 219, 251},
      {23, 46, 92, 103, 173, 184, 195, 206}, {51, 102, 169, 204, 227, 239},
      {113, 119, 125, 165, 177, 189, 226, 238, 250},
      {7, 14, 28, 56, 93, 112, 125, 173, 186, 224, 237, 250},
      {59, 91, 118, 155, 182, 209, 236},
      {3, 6, 12, 24, 41, 48, 82, 89, 96, 164, 178, 192, 235, 249}, {},
      {19, 23, 27, 31, 38, 46, 54, 62, 76, 92, 108, 124, 152, 184, 216, 248}, {},
      {87, 174, 229, 247}, {37, 74, 148, 207}, {5, 10, 20, 40, 80, 139, 160, 203},
      {99, 175, 198}, {3, 6, 12, 24, 48, 96, 109, 141, 192, 218}, {121, 185, 242},
      {11, 15, 22, 30, 44, 60, 88, 120, 176, 240}, {119, 165, 238}, {235}, {},
      {7, 14, 28, 56, 112, 224}, {}, {3, 6, 12, 24, 48, 96, 192}, {}, {}>>

\* The arguments of new Rgba32(...), each truncated to a whole number as the
\* cast does, before it is stored in a byte: the blend of col over existing
\* (called when outA > 0).  Over a fully transparent pixel outA * 255 is
\* col.A again in single precision and a channel is col's or one less; over
\* any other pixel the quotients are taken exactly.
BlendValues(col, existing) ==
    LET sa == Alpha(col)
        da == Alpha(existing)
        \* 255 * 255 * outA
        outA == 255 * sa + da * (255 - sa)
    IN  IF da = 0
        THEN <<IF Colour(col) \in ChannelFallsShort[sa]
               THEN Colour(col) - 1 ELSE Colour(col),
               sa>>
        ELSE <<(Colour(col) * sa * 255 + Colour(existing) * da * (255 - sa)) \div outA,
               outA \div 255>>

\* (byte)v for a whole number v
ByteCast(v) == v % 256

\* if (outA > 0): outA = srcA + dstA * (1 - srcA)
BlendWrites(col, existing) == Alpha(col) > 0 \/ Alpha(existing) > 0

\* The pixel at the shadow position after the blend of col over the pixel
\* that is there; nothing is written when the blended alpha is 0.
BlendShadow(col, existing) ==
    IF BlendWrites(col, existing)
    THEN <<ByteCast(BlendValues(col, existing)[1]), ByteCast(BlendValues(col, existing)[2])>>
    ELSE existing

\* The shadow layer after the two loops.  The loops visit each (x, y) of
\* the image once, in column order, and write at (x + offsetX, y + offsetY)
\* when alpha > 0 and that position is inside the buffer: the pixel at a
\* position is the blend, in that order, of the writes made to it over the
\* transparent pixel the new layer holds.
ShadowWriters(img, q, offsetX, offsetY) ==
    {p \in {<<q[1] - offsetX, q[2] - offsetY>>} :
        /\ p[1] >= 0 /\ p[1] < img.w /\ p[2] >= 0 /\ p[2] < img.h
        /\ Alpha(img.px[p]) > 0}

ShadowLayer(img, offsetX, offsetY, shadowColor) ==
    [w |-> img.w, h |-> img.h,
     px |-> [q \in Coords(img.w, img.h) |->
                LET writers == ShadowWriters(img, q, offsetX, offsetY)
                IN  IF writers = {} THEN Transparent
                    ELSE LET p == CHOOSE p \in writers : TRUE
                         IN  BlendShadow(<<Colour(shadowColor),
                                           ShadowAlpha(shadowColor, Alpha(img.px[p]))>>,
                                         Transparent)]]

Clamp(v, lo, hi) == IF v < lo THEN lo ELSE IF v > hi THEN hi ELSE v

\* The kernels of GaussianBlurProcessor for sigma = 1 and sigma = 2: 2 *
\* ceil(3 * sigma) + 1 weights, exp(-x^2 / (2 sigma^2)) / (sqrt(2 pi) sigma)
\* at x = -radius .. radius divided by their sum, each computed in single
\* precision.  The weights are [values] / 2^bits.
GaussianKernels ==
    <<[bits |-> 31,
       values |-> <<9519899, 115976112, 519768864, 856953984, 519768864, 115976112,
                    9519899>>],
      [bits |-> 32,
       values |-> <<9527079, 37680328, 116063584, 278422080, 520160896, 756829632,
                    857600320, 756829632, 520160896, 278422080, 116063584, 37680328,
                    9527079>>]>>

\* the kernel of sigma: its weights as planes, and the number 2^bits
GaussianKernel ==
    Computed([sigma \in 1 .. Len(GaussianKernels) |->
                 [length |-> Len(GaussianKernels[sigma].values),
                  planes |-> Planes(GaussianKernels[sigma].values, 3),
                  unit |-> WShiftLeft(WNat(1), GaussianKernels[sigma].bits)]])

\* One pass of Convolution2PassProcessor, along the rows or along the
\* columns: each pixel is the sum of the pixels up to radius away from it,
\* the edge pixel standing for those outside, multiplied by their alpha and
\* by the weights; it is divided by its alpha and stored as bytes.  The
\* library holds the sums in single precision; the sums are exact here.
\* source is the buffer as its rows.
ConvolveRows(img, source, kernel, alongRows) ==
    LET radius == (kernel.length - 1) \div 2
    IN  Given(source,
          [img EXCEPT !.px = Computed(
            [p \in Coords(img.w, img.h) |->
                LET taps == [t \in 1 .. kernel.length |->
                                IF alongRows
                                THEN source[p[2]][Clamp(p[1] + t - 1 - radius, 0, img.w - 1)]
                                ELSE source[Clamp(p[2] + t - 1 - radius, 0, img.h - 1)][p[1]]]
                IN  Given(taps,
                        UnPremultiplied(
                            DotInts(kernel.planes, [t \in 1 .. kernel.length |->
                                        Colour(taps[t]) * Alpha(taps[t])]),
                            DotInts(kernel.planes, [t \in 1 .. kernel.length |->
                                        Alpha(taps[t])]),
                            kernel.unit))])])

Convolve(img, kernel, alongRows) == ConvolveRows(img, PixelRows(img), kernel, alongRows)

\* ctx.GaussianBlur(blurRadius): sigma is blurRadius; the rows are convolved
\* with the kernel, then the columns of the result
GaussianBlur(img, blurRadius) ==
    Convolve(Convolve(img, GaussianKernel[blurRadius], TRUE),
             GaussianKernel[blurRadius], FALSE)

\* if (blurRadius > 0) shadowLayer.Mutate(ctx => ctx.GaussianBlur(blurRadius))
BlurIfPositive(shadowLayer, blurRadius) ==
    IF blurRadius > 0 THEN GaussianBlur(shadowLayer, blurRadius) ELSE shadowLayer

\* image[x, y] = shadowLayer[x, y] for every x and y
CopyBack(img, shadowLayer) ==
    Given(shadowLayer,
          [img EXCEPT !.px = [p \in Coords(img.w, img.h) |-> shadowLayer.px[p]]])

\* ApplyDropShadow(image, offsetX, offsetY, blurRadius, shadowColor): the
\* buffer as the call leaves it
ApplyDropShadow(img, offsetX, offsetY, blurRadius, shadowColor) ==
    CopyBack(img, DrawImage(BlurIfPositive(ShadowLayer(img, offsetX, offsetY, shadowColor),
                                           blurRadius),
                            img, 0, 0).image)

\* if (sx >= 0 && sx < width && sy >= 0 && sy < height)
InBufferUpperOnly(sx, sy, width, height) == sx < width /\ sy < height
InBuffer(sx, sy, width, height) == sx >= 0 /\ sx < width /\ sy >= 0 /\ sy < height

\* The body of the first pair of loops at (x, y): the layer it leaves, the
\* positions it indexes, the write it makes (none or one) and the
\* exception an index outside a buffer throws.
VisitPixel(img, layer, x, y, offsetX, offsetY, shadowColor) ==
    LET alpha == Alpha(img.px[<<x, y>>])
        sx == x + offsetX
        sy == y + offsetY
        col == <<Colour(shadowColor), ShadowAlpha(shadowColor, alpha)>>
        read == {<<"image", <<x, y>>>>}
    IN  IF alpha > 0 /\ InBuffer(sx, sy, img.w, img.h)
        THEN IF <<sx, sy>> \notin Coords(layer.w, layer.h)
             THEN [layer |-> layer, touched |-> read \cup {<<"shadowLayer", <<sx, sy>>>>},
                   writes |-> <<>>, err |-> "ArgumentOutOfRangeException"]
             ELSE LET existing == layer.px[<<sx, sy>>]
                  IN  [layer |-> [layer EXCEPT !.px[<<sx, sy>>] = BlendShadow(col, existing)],
                       touched |-> read \cup {<<"shadowLayer", <<sx, sy>>>>},
                       writes |-> IF BlendWrites(col, existing)
                                  THEN <<[from |-> <<x, y>>, to |-> <<sx, sy>>,
                                          alpha |-> alpha, col |-> col,
                                          existing |-> existing,
                                          values |-> BlendValues(col, existing),
                                          stored |-> BlendShadow(col, existing)]>>
                                  ELSE <<>>,
                       err |-> NoError]
        ELSE [layer |-> layer, touched |-> read, writes |-> <<>>, err |-> NoError]

\* the largest offset, to either side, handed to ApplyDropShadow
MaxOffset == 2

\* a w x h buffer whose pixels, row by row, have the given alphas; the
\* colour tells the positions apart
AlphaImage(w, h, alphas) ==
    [w |-> w, h |-> h,
     px |-> [p \in Coords(w, h) |-> <<10 * (1 + p[1] + p[2] * w), alphas[1 + p[1] + p[2] * w]>>]]

\* the buffers tried: an opaque square with clear pixels around it, one
\* opaque pixel, faint and half-clear pixels, and nothing visible
ShadowInputs ==
    {AlphaImage(3, 3, <<255, 255, 0, 255, 255, 0, 0, 0, 0>>),
     AlphaImage(1, 1, <<255>>),
     AlphaImage(3, 2, <<255, 155, 0, 1, 0, 255>>),
     AlphaImage(2, 2, <<1, 0, 0, 2>>),
     AlphaImage(2, 3, <<0, 0, 0, 0, 0, 0>>),
     AlphaImage(3, 1, <<0, 128, 254>>)}

\* the shadow colours tried: the icon's, opaque white, two faint ones
ShadowColours == {<<0, 116>>, <<255, 255>>, <<200, 51>>, <<23, 3>>}

DsInit ==
    /\ dsInput \in ShadowInputs
    /\ dsArgs \in [offsetX : -MaxOffset .. MaxOffset, offsetY : -MaxOffset .. MaxOffset,
                   blurRadius : {0, 1}, shadowColor : ShadowColours]
    /\ dsImage = dsInput
    /\ dsLayer = Null
    /\ dsX = 0
    /\ dsY = 0
    /\ dsTouched = {}
    /\ dsWrites = <<>>
    /\ dsPc = "create"

DsIdle ==
    /\ dsInput = Null
    /\ dsArgs = Null
    /\ dsImage = Null
    /\ dsLayer = Null
    /\ dsX = 0
    /\ dsY = 0
    /\ dsTouched = {}
    /\ dsWrites = <<>>
    /\ dsPc = "idle"

\* using var shadowLayer = new Image<Rgba32>(width, height)
DsCreate ==
    /\ dsPc = "create"
    /\ dsLayer' = NewImage(dsImage.w, dsImage.h)
    /\ dsPc' = "loop"
    /\ UNCHANGED <<dsInput, dsArgs, dsImage, dsX, dsY, dsTouched, dsWrites>>
    /\ UNCHANGED dsForeign

\* one pass through the body of the first pair of loops, x outer, y inner
DsVisit ==
    /\ dsPc = "loop"
    /\ \E v \in {VisitPixel(dsImage, dsLayer, dsX, dsY, dsArgs.offsetX,
                              dsArgs.offsetY, dsArgs.shadowColor)} :
       LET lastY == dsY + 1 >= dsImage.h
           lastX == dsX + 1 >= dsImage.w
       IN  /\ dsLayer' = v.layer
           /\ dsTouched' = dsTouched \cup v.touched
           /\ dsWrites' = dsWrites \o v.writes
           /\ dsY' = IF lastY THEN 0 ELSE dsY + 1
           /\ dsX' = IF lastY THEN dsX + 1 ELSE dsX
           /\ dsPc' = IF v.err # NoError THEN "thrown"
                      ELSE IF lastY /\ lastX THEN "blur" ELSE "loop"
    /\ UNCHANGED <<dsInput, dsArgs, dsImage>>
    /\ UNCHANGED dsForeign

\* if (blurRadius > 0) shadowLayer.Mutate(ctx => ctx.GaussianBlur(blurRadius))
DsBlur ==
    /\ dsPc = "blur"
    /\ dsLayer' = IF dsArgs.blurRadius > 0
                  THEN GaussianBlur(dsLayer, dsArgs.blurRadius) ELSE dsLayer
    /\ dsPc' = "composite"
    /\ UNCHANGED <<dsInput, dsArgs, dsImage, dsX, dsY, dsTouched, dsWrites>>
    /\ UNCHANGED dsForeign

\* shadowLayer.Mutate(ctx => ctx.DrawImage(image, new Point(0, 0), 1f))
DsComposite ==
    /\ dsPc = "composite"
    /\ dsLayer' = DrawImage(dsLayer, dsImage, 0, 0).image
    /\ dsPc' = "copy"
    /\ UNCHANGED <<dsInput, dsArgs, dsImage, dsX, dsY, dsTouched, dsWrites>>
    /\ UNCHANGED dsForeign

\* the second pair of loops: image[x, y] = shadowLayer[x, y]
DsCopy ==
    /\ dsPc = "copy"
    /\ dsImage' = [dsImage EXCEPT !.px = [p \in Coords(dsImage.w, dsImage.h) |-> dsLayer.px[p]]]
    /\ dsTouched' = dsTouched \cup ({"image", "shadowLayer"} \X Coords(dsImage.w, dsImage.h))
    /\ dsPc' = "done"
    /\ UNCHANGED <<dsInput, dsArgs, dsLayer, dsX, dsY, dsWrites>>
    /\ UNCHANGED dsForeign

DsNext ==
    \/ DsCreate
    \/ DsVisit
    \/ DsBlur
    \/ DsComposite
    \/ DsCopy

-----------------------------------------------------------------------------
(* Program.Process of the icon processor *)

IconWidth == 120
IconHeight == 64
shadowBlurRadius == 2
resolutions == <<64, 32, 16, 8>>
positions == <<0, 64, 96, 112>>
\* new(0, 0, 0, 116)
IconShadowColor == <<0, 116>>

\* int pad = Math.Min(shadowBlurRadius, resolution / 4)
LayerPadQuarter(resolution) == resolution \div 4
LayerPad(resolution) == MathMin(shadowBlurRadius, resolution \div 4)

\* clone = image.Clone(): the buffer the layer is resized from
LayerSourceCascaded(img, previous) == IF previous = Null THEN img ELSE previous
LayerSource(img, previous) == img

\* where the loop goes after iteration i (0-based)
AfterLayerShadowEach(i) == "shadow"
AfterLayer(i) == IF i + 1 < Len(resolutions) THEN "layer" ELSE "shadow"

\* the texture files tried: full ones of every small size, one with nothing
\* visible, some that trim to a part, and long thin ones
IconFiles ==
    {LoadImage(w, h, Coords(w, h)) : <<w, h>> \in FrameSides \X FrameSides}
        \cup {LoadImage(2, 2, {}),
              LoadImage(2, 2, {<<0, 0>>}),
              LoadImage(2, 2, {<<0, 1>>, <<1, 0>>}),
              LoadImage(2, 2, {<<1, 0>>, <<1, 1>>}),
              LoadImage(3, 2, Coords(3, 2) \ {<<1, 1>>}),
              LoadImage(3, 3, {<<0, 1>>, <<1, 1>>, <<2, 1>>}),
              LoadImage(3, 3, {<<1, 0>>, <<1, 2>>}),
              LoadImage(1, 9, Coords(1, 9)),
              LoadImage(9, 1, Coords(9, 1))}

IcInit ==
    /\ icFile \in IconFiles
    /\ icImage = Null
    /\ icTrimmed = Null
    /\ icon = Null
    /\ icClone = Null
    /\ icI = 0
    /\ icLayers = <<>>
    /\ icLog = <<>>
    /\ icDisposed = <<>>
    /\ icSaved = <<>>
    /\ icErr = NoError
    /\ icPc = "load"

IcIdle ==
    /\ icFile = Null
    /\ icImage = Null
    /\ icTrimmed = Null
    /\ icon = Null
    /\ icClone = Null
    /\ icI = 0
    /\ icLayers = <<>>
    /\ icLog = <<>>
    /\ icDisposed = <<>>
    /\ icSaved = <<>>
    /\ icErr = NoError
    /\ icPc = "idle"

\* Image<Rgba32> image = await Image.LoadAsync<Rgba32>(texture.FullName)
IcLoad ==
    /\ icPc = "load"
    /\ icImage' = icFile
    /\ icLog' = Append(icLog, <<"load", 0>>)
    /\ icPc' = "trim"
    /\ UNCHANGED <<icFile, icTrimmed, icon, icClone, icI, icLayers, icDisposed,
                   icSaved, icErr>>
    /\ UNCHANGED icForeign

\* Processor.TrimWhitespace(image)
IcTrim ==
    /\ icPc = "trim"
    /\ \E t \in {TrimWhitespace(icImage)} :
           /\ icImage' = t.image
           /\ icErr' = t.err
           /\ icTrimmed' = IF t.err = NoError THEN t.image ELSE icTrimmed
           /\ icPc' = IF t.err = NoError THEN "create" ELSE "thrown"
    /\ icLog' = Append(icLog, <<"trim", 0>>)
    /\ UNCHANGED <<icFile, icon, icClone, icI, icLayers, icDisposed, icSaved>>
    /\ UNCHANGED icForeign

\* Image<Rgba32> icon = new(120, 64); clone = null; i = 0
IcCreate ==
    /\ icPc = "create"
    /\ icon' = NewImage(IconWidth, IconHeight)
    /\ icClone' = Null
    /\ icI' = 0
    /\ icLog' = Append(icLog, <<"create", 0>>)
    /\ icPc' = "layer"
    /\ UNCHANGED <<icFile, icImage, icTrimmed, icLayers, icDisposed, icSaved, icErr>>
    /\ UNCHANGED icForeign

\* One iteration of the loop over the resolutions: the last clone is
\* disposed, a clone of image is resized onto a square canvas and disposed,
\* and the canvas is drawn on the icon.
IcLayer ==
    /\ icPc = "layer"
    /\ LET resolution == resolutions[icI + 1]
           pad == LayerPad(resolution)
           targetSize == resolution - 2 * pad
           source == LayerSource(icImage, icClone)
           drawX == positions[icI + 1] + pad
           drawY == pad
           first == IF icClone = Null THEN <<>> ELSE <<<<"padded", icI - 1>>>>
       IN  \E r \in {IconResizeWithAspect(source, DInt(targetSize), DOne, <<Half, Half>>)} :
           \E d \in {DrawImage(icon, r.padded, drawX, drawY)} :
               IF r.err # NoError
               THEN /\ icErr' = r.err
                    /\ icPc' = "thrown"
                    /\ icDisposed' = icDisposed \o first
                    /\ UNCHANGED <<icon, icClone, icI, icLayers>>
               ELSE /\ icDisposed' = icDisposed \o first \o <<<<"clone", icI>>>>
                    /\ icClone' = r.padded
                    /\ icon' = d.image
                    /\ icLayers' = Append(icLayers,
                                      [source |-> source, pad |-> pad,
                                       targetSize |-> targetSize,
                                       tile |-> [w |-> r.padded.w, h |-> r.padded.h],
                                       drawX |-> drawX, drawY |-> drawY])
                    /\ icErr' = d.err
                    /\ icI' = icI + 1
                    /\ icPc' = IF d.err # NoError THEN "thrown" ELSE AfterLayer(icI)
    /\ icLog' = Append(icLog, <<"layer", icI>>)
    /\ UNCHANGED <<icFile, icImage, icTrimmed, icSaved>>
    /\ UNCHANGED icForeign

\* clone?.Dispose(); Processor.ApplyDropShadow(icon, 0, 0, shadowBlurRadius, new(0, 0, 0, 116))
IcShadow ==
    /\ icPc = "shadow"
    /\ icDisposed' = icDisposed \o
                        (IF icClone = Null THEN <<>> ELSE <<<<"padded", icI - 1>>>>)
    /\ icon' = ApplyDropShadow(icon, 0, 0, shadowBlurRadius, IconShadowColor)
    /\ icLog' = Append(icLog, <<"shadow", 0>>)
    /\ icPc' = "save"
    /\ UNCHANGED <<icFile, icImage, icTrimmed, icClone, icI, icLayers, icSaved, icErr>>
    /\ UNCHANGED icForeign

\* await icon.SaveAsPngAsync(outputPath)
IcSave ==
    /\ icPc = "save"
    /\ icSaved' = Append(icSaved, [file |-> "texture-processed", image |-> icon])
    /\ icLog' = Append(icLog, <<"save", 0>>)
    /\ icPc' = "returned"
    /\ UNCHANGED <<icFile, icImage, icTrimmed, icon, icClone, icI, icLayers,
                   icDisposed, icErr>>
    /\ UNCHANGED icForeign

IcNext ==
    \/ IcLoad
    \/ IcTrim
    \/ IcCreate
    \/ IcLayer
    \/ IcShadow
    \/ IcSave

-----------------------------------------------------------------------------
(* Program.Process of the picture processor, and the validator of the root
   command that runs before it *)

\* largest value of --variants
MaxVariants == 3

\* A file is [directory, name], the name a string with its extension.
Png == <<".", "p", "n", "g">>
FileNamed(base) == [directory |-> "dir", name |-> base \o Png]

\* the place of the last "." of a name, 0 when it has none
LastDot(name) ==
    IF \E i \in 1 .. Len(name) : name[i] = "."
    THEN CHOOSE i \in 1 .. Len(name) :
            name[i] = "." /\ \A j \in i + 1 .. Len(name) : name[j] # "."
    ELSE 0

\* Path.GetFileNameWithoutExtension(name): the name up to its last period
GetFileNameWithoutExtension(name) ==
    IF LastDot(name) = 0 THEN name ELSE SubSeq(name, 1, LastDot(name) - 1)

\* Path.GetExtension(name): the name from its last period on, and nothing
\* when the name ends with that period
GetExtension(name) ==
    IF LastDot(name) = 0 \/ LastDot(name) = Len(name) THEN <<>>
    ELSE SubSeq(name, LastDot(name), Len(name))

\* string.Replace(t, ""): the occurrences of t removed, from the left
RECURSIVE Remove(_, _)
Remove(s, t) ==
    IF Len(s) < Len(t) THEN s
    ELSE IF SubSeq(s, 1, Len(t)) = t THEN Remove(SubSeq(s, Len(t) + 1, Len(s)), t)
    ELSE <<Head(s)>> \o Remove(Tail(s), t)

\* the string an int i >= 0 is formatted as
RECURSIVE IntToString(_)
IntToString(i) ==
    LET digits == <<"0", "1", "2", "3", "4", "5", "6", "7", "8", "9">>
        digit == digits[(i % 10) + 1]
    IN  IF i < 10 THEN <<digit>> ELSE IntToString(i \div 10) \o <<digit>>

strVariant == <<"v", "a", "r", "i", "a", "n", "t">>
strDashVariant == <<"-">> \o strVariant
strDashShadow == <<"-", "s", "h", "a", "d", "o", "w">>

\* shadowPath: Path.Combine(directory, $"{baseName}-shadow{extension}"),
\* baseName the name of textures[0] without "-variant" and "variant"
ShadowPath(texture) ==
    LET baseName == Remove(Remove(GetFileNameWithoutExtension(texture.name),
                                  strDashVariant), strVariant)
    IN  [directory |-> texture.directory,
         name |-> baseName \o strDashShadow \o GetExtension(texture.name)]

\* baseName as the two tests on "-variant" and "variant" leave it
VariantBase(name) ==
    LET baseName == GetFileNameWithoutExtension(name)
    IN  IF ~Contains(baseName, strDashVariant) THEN baseName \o strDashVariant
        ELSE IF ~Contains(baseName, strVariant) THEN baseName \o strVariant
        ELSE baseName

\* variantPath: Path.Combine(directory, $"{baseName}{i}{extension}")
VariantPathFromZero(texture, i) ==
    [directory |-> texture.directory,
     name |-> VariantBase(texture.name) \o IntToString(i - 1) \o GetExtension(texture.name)]
VariantPath(texture, i) ==
    [directory |-> texture.directory,
     name |-> VariantBase(texture.name) \o IntToString(i) \o GetExtension(texture.name)]

\* !shadow.Exists, !File.Exists(variantPath)
MissingNever(file, exists) == FALSE
Missing(file, exists) == file \notin exists

\* The loop over i = 1 .. variants from i on: the list it builds, and the
\* exception of the first variant file that does not exist.
RECURSIVE ExpandVariants(_, _, _, _, _)
ExpandVariants(texture, variants, exists, i, list) ==
    IF i > variants THEN [err |-> NoError, textures |-> list]
    ELSE IF Missing(VariantPath(texture, i), exists)
    THEN [err |-> "FileNotFoundException: Variant file not found", textures |-> list]
    ELSE ExpandVariants(texture, variants, exists, i + 1,
                        Append(list, VariantPath(texture, i)))

\* The decoded content of a file, told by the first letter of its name, by
\* whether it is a shadow and by the digit before its extension.  "t" and
\* "e" files are 3x3: a "t" file shows its upper left 2x2 square, but
\* variant 2, which shows two pixels of its first row; an "e" file shows
\* that square too, but the texture itself and variant 2, which show
\* nothing, and variant 3, which shows two pixels of its first row.  "u"
\* files are 2x2 and full, but the texture itself, which is 1x2, and
\* variant 1, which shows its first column.  "w" files are the wide frame.
\* The shadows of "t" and "w" files are 2x2 and full, that of an "e" file
\* is 2x1 with one visible pixel, that of a "u" file shows nothing.
IsShadowFile(file) == Contains(file.name, strDashShadow)
NumberOf(file) ==
    LET baseName == GetFileNameWithoutExtension(file.name)
    IN  IF baseName # <<>> /\ baseName[Len(baseName)] \in {"1", "2", "3", "4", "5"}
        THEN baseName[Len(baseName)] ELSE "0"

Content(file) ==
    LET root == file.name[1]
        number == NumberOf(file)
        square == LoadImage(3, 3, Coords(2, 2))
        row == LoadImage(3, 3, {<<0, 0>>, <<1, 0>>})
    IN  IF IsShadowFile(file)
        THEN IF root \in {"t", "w"} THEN LoadImage(2, 2, Coords(2, 2))
             ELSE IF root = "e" THEN LoadImage(2, 1, {<<1, 0>>})
             ELSE LoadImage(2, 2, {})
        ELSE IF root = "t"
             THEN IF number = "2" THEN row ELSE square
        ELSE IF root = "e"
             THEN IF number \in {"0", "2"} THEN LoadImage(3, 3, {})
                  ELSE IF number = "3" THEN row ELSE square
        ELSE IF root = "w" THEN WideFrame
        ELSE IF number = "0" THEN LoadImage(1, 2, Coords(1, 2))
        ELSE IF number = "1" THEN LoadImage(2, 2, {<<0, 0>>, <<0, 1>>})
        ELSE LoadImage(2, 2, Coords(2, 2))

\* the texture lists tried on the command line; one name ends with a period
TextureLists ==
    {<<FileNamed(<<"t">>)>>, <<FileNamed(<<"e">>)>>, <<FileNamed(<<"u">>)>>,
     <<FileNamed(<<"w">>)>>, <<[directory |-> "dir", name |-> <<"t", ".">>]>>,
     <<FileNamed(<<"t">> \o strDashVariant)>>, <<FileNamed(<<"t">> \o strVariant)>>,
     <<FileNamed(<<"t">>), FileNamed(<<"u">>)>>,
     <<FileNamed(<<"t">>), FileNamed(<<"e">>)>>,
     <<FileNamed(<<"e">>), FileNamed(<<"t">>)>>,
     <<FileNamed(<<"t">>), FileNamed(<<"t">>)>>}

\* --shadow: absent, given without a value, given with a file (which exists)
ShadowOptions ==
    {[given |-> FALSE, file |-> Null], [given |-> TRUE, file |-> Null],
     [given |-> TRUE, file |-> FileNamed(<<"e">> \o strDashShadow)]}

\* the files Process looks for beside the first texture
Companions(texture) ==
    {ShadowPath(texture)} \cup {VariantPath(texture, i) : i \in 1 .. MaxVariants}

PrInit ==
    /\ prTextures \in TextureLists
    /\ prShadowOption \in ShadowOptions
    /\ prVariants \in 0 .. MaxVariants
    /\ prScale \in PmScales
    /\ prExists \in SUBSET Companions(prTextures[1])
    /\ prList = <<>>
    /\ prShadow = Null
    /\ prErr = NoError
    /\ prPc = "validate"

PrIdle ==
    /\ prTextures = <<>>
    /\ prShadowOption = Null
    /\ prVariants = 1
    /\ prScale = R(1, 1)
    /\ prExists = {}
    /\ prList = <<>>
    /\ prShadow = Null
    /\ prErr = NoError
    /\ prPc = "idle"

\* The validator of the root command, then the first statements of Process:
\* textures = new(pr.GetValue(_opt_textures)), shadow = the option's value.
ValidatorRejects(textures, variants) == variants > 1 /\ Len(textures) > 1

PrValidate ==
    /\ prPc = "validate"
    /\ IF ValidatorRejects(prTextures, prVariants)
       THEN /\ prErr' = "--textures must contain exactly one value when --variants is greater than 1."
            /\ prPc' = "rejected"
            /\ UNCHANGED <<prList, prShadow>>
       ELSE /\ prList' = prTextures
            /\ prShadow' = IF prShadowOption.given THEN prShadowOption.file ELSE Null
            /\ prPc' = "shadow"
            /\ UNCHANGED prErr
    /\ UNCHANGED <<prTextures, prShadowOption, prVariants, prScale, prExists>>
    /\ UNCHANGED prForeign

\* Handle shadow file inference
PrInferShadow ==
    /\ prPc = "shadow"
    /\ IF prShadowOption.given /\ prShadow = Null
       THEN IF Missing(ShadowPath(prList[1]), prExists)
            THEN /\ prErr' = "FileNotFoundException: Shadow file not found"
                 /\ prPc' = "thrown"
                 /\ prShadow' = ShadowPath(prList[1])
            ELSE /\ prShadow' = ShadowPath(prList[1])
                 /\ prPc' = "variants"
                 /\ UNCHANGED prErr
       ELSE /\ prPc' = "variants"
            /\ UNCHANGED <<prShadow, prErr>>
    /\ UNCHANGED <<prTextures, prShadowOption, prVariants, prScale, prExists, prList>>
    /\ UNCHANGED prForeign

\* Handle variants
PrVariants ==
    /\ prPc = "variants"
    /\ IF prVariants > 1
       THEN IF Len(prList) # 1
            THEN /\ prErr' = "InvalidOperationException: exactly one texture must be provided"
                 /\ prPc' = "thrown"
                 /\ UNCHANGED prList
            ELSE \E r \in {ExpandVariants(prList[1], prVariants, prExists, 1, <<>>)} :
                     /\ prList' = r.textures
                     /\ prErr' = r.err
                     /\ prPc' = IF r.err = NoError THEN "dispatch" ELSE "thrown"
       ELSE /\ prPc' = "dispatch"
            /\ UNCHANGED <<prList, prErr>>
    /\ UNCHANGED <<prTextures, prShadowOption, prVariants, prScale, prExists, prShadow>>
    /\ UNCHANGED prForeign

\* the decoded content of shadow, Null when there is none
ShadowContent(shadow) == IF shadow = Null THEN Null ELSE Content(shadow)

\* if (textures.Count == 1) await ProcessTextureSingle(textures[0], shadow, scale, alignment)
PrCallSingle ==
    /\ prPc = "dispatch"
    /\ Len(prList) = 1
    /\ prPc' = "called"
    /\ psFile' = Content(prList[1])
    /\ psShadowFile' = ShadowContent(prShadow)
    /\ psScale' = prScale
    /\ psPc' = "load"
    /\ UNCHANGED <<psAlignment, psImage, psShadowImage, psImageScale, psSuggested,
                   psSaved, psDisposed, psErr>>
    /\ UNCHANGED <<prTextures, prShadowOption, prVariants, prScale, prExists, prList,
                   prShadow, prErr>>
    /\ UNCHANGED <<trimVars, rzVars, pmVars, envVars, paVars, ofVars, icVars, dsVars>>

\* else await ProcessTextureMultiple(textures, shadow, scale, alignment)
PrCallMultiple ==
    /\ prPc = "dispatch"
    /\ Len(prList) # 1
    /\ prPc' = "called"
    /\ pmFiles' = [i \in 1 .. Len(prList) |-> Content(prList[i])]
    /\ pmShadowFile' = ShadowContent(prShadow)
    /\ pmScale' = prScale
    /\ pmPc' = "load"
    /\ UNCHANGED <<images, shadowImage, imageScale, spriteSheet, pmSaved, pmDisposed, pmErr>>
    /\ UNCHANGED <<prTextures, prShadowOption, prVariants, prScale, prExists, prList,
                   prShadow, prErr>>
    /\ UNCHANGED <<trimVars, rzVars, psVars, envVars, paVars, ofVars, icVars, dsVars>>

PrNext ==
    \/ PrValidate
    \/ PrInferShadow
    \/ PrVariants
    \/ PrCallSingle
    \/ PrCallMultiple
    \/ PsNext
    \/ PmNext

-----------------------------------------------------------------------------
(* Specifications *)

InitTrim == TrimInit /\ RzIdle /\ PmIdle /\ PaIdle /\ OfIdle /\ PsIdle /\ IcIdle /\ PrIdle /\ DsIdle /\ drawOutsideThrows \in BOOLEAN /\ currentCulture = "en-US"
SpecTrim == InitTrim /\ [][TrimNext]_vars

InitResize == RzInit /\ TrimIdle /\ PmIdle /\ PaIdle /\ OfIdle /\ PsIdle /\ IcIdle /\ PrIdle /\ DsIdle /\ drawOutsideThrows \in BOOLEAN /\ currentCulture = "en-US"
SpecResize == InitResize /\ [][RzNext]_vars

InitMultiple == PmInit /\ TrimIdle /\ RzIdle /\ PaIdle /\ OfIdle /\ PsIdle /\ IcIdle /\ PrIdle /\ DsIdle /\ drawOutsideThrows \in BOOLEAN /\ currentCulture = "en-US"
SpecMultiple == InitMultiple /\ [][PmNext]_vars

InitAlignment ==
    PaInit /\ TrimIdle /\ RzIdle /\ PmIdle /\ OfIdle /\ PsIdle /\ IcIdle /\ PrIdle /\ DsIdle /\ drawOutsideThrows = FALSE /\ currentCulture \in Cultures
SpecAlignment == InitAlignment /\ [][PaNext]_vars

InitAlignmentEdit ==
    PaEditInit /\ TrimIdle /\ RzIdle /\ PmIdle /\ OfIdle /\ PsIdle /\ IcIdle /\ PrIdle /\ DsIdle /\ drawOutsideThrows = FALSE /\ currentCulture \in Cultures
SpecAlignmentEdit == InitAlignmentEdit /\ [][PaEditNext]_vars

InitOffsets ==
    OfInit /\ TrimIdle /\ RzIdle /\ PmIdle /\ PaIdle /\ PsIdle /\ IcIdle /\ PrIdle /\ DsIdle /\ drawOutsideThrows = FALSE /\ currentCulture = "en-US"
SpecOffsets == InitOffsets /\ [][OfNext]_vars

InitSingle ==
    PsInit /\ TrimIdle /\ RzIdle /\ PmIdle /\ PaIdle /\ OfIdle /\ IcIdle /\ PrIdle /\ DsIdle /\ drawOutsideThrows = FALSE /\ currentCulture = "en-US"
SpecSingle == InitSingle /\ [][PsNext]_vars

InitIcon ==
    /\ IcInit /\ TrimIdle /\ RzIdle /\ PmIdle /\ PaIdle /\ OfIdle /\ PsIdle /\ PrIdle /\ DsIdle
    /\ drawOutsideThrows = FALSE
    /\ currentCulture = "en-US"
SpecIcon == InitIcon /\ [][IcNext]_vars

InitShadow ==
    /\ DsInit /\ TrimIdle /\ RzIdle /\ PmIdle /\ PaIdle /\ OfIdle /\ PsIdle /\ IcIdle /\ PrIdle
    /\ drawOutsideThrows = FALSE
    /\ currentCulture = "en-US"
SpecShadow == InitShadow /\ [][DsNext]_vars

InitProcess ==
    /\ PrInit /\ TrimIdle /\ RzIdle /\ PmIdle /\ PaIdle /\ OfIdle /\ PsIdle /\ IcIdle /\ DsIdle
    /\ drawOutsideThrows \in BOOLEAN
    /\ currentCulture = "en-US"
SpecProcess == InitProcess /\ [][PrNext]_vars

-----------------------------------------------------------------------------
(* Properties of TrimWhitespace, checked under SpecTrim *)

\* the positions of img whose alpha exceeds 0
Visible(img) == {p \in Coords(img.w, img.h) : Alpha(img.px[p]) > 0}

SetMin(S) == CHOOSE m \in S : \A n \in S : m <= n
SetMax(S) == CHOOSE m \in S : \A n \in S : m >= n

\* each of the four border rows/columns of img holds a pixel of alpha > 0
TightlyBounded(img) ==
    /\ \E p \in Visible(img) : p[1] = 0
    /\ \E p \in Visible(img) : p[1] = img.w - 1
    /\ \E p \in Visible(img) : p[2] = 0
    /\ \E p \in Visible(img) : p[2] = img.h - 1

\* C3: TrimWhitespace is idempotent: a second call on the result of a first
\* (successful) call succeeds and leaves dimensions and pixels as they were,
\* and a call on a buffer whose four borders each hold a pixel of alpha > 0
\* returns it unchanged.
C3_TrimIdempotent ==
    /\ trimCalls = 2 => (trimErr = NoError /\ image = trimPrev)
    /\ (trimCalls >= 1 /\ TightlyBounded(trimPrev)) =>
           (trimErr = NoError /\ image = trimPrev)

\* C3 witness: two calls were made and the first one really cropped
C3_Witness ==
    /\ trimCalls = 2
    /\ trimErr = NoError
    /\ image = trimPrev
    /\ image.w < trimInput.w
    /\ image.h < trimInput.h

\* C4: on a buffer with no pixel of alpha > 0 (a buffer of width 0 or height
\* 0 included) TrimWhitespace throws and leaves dimensions and pixels as
\* they were.
C4_TrimEmptyThrows ==
    (trimCalls >= 1 /\ Visible(trimPrev) = {}) =>
        (trimErr = "InvalidOperationException" /\ image = trimPrev)

\* C4 witness: the call threw on a fully transparent buffer that has pixels
C4_Witness ==
    /\ trimCalls = 1
    /\ trimErr = "InvalidOperationException"
    /\ trimPrev.w = MaxW
    /\ trimPrev.h = MaxH
    /\ Visible(trimPrev) = {}

\* C5: on a buffer with a pixel of alpha > 0, TrimWhitespace crops to the
\* inclusive rectangle spanned by the smallest and largest column and row
\* holding such a pixel: the result has width maxX-minX+1, height
\* maxY-minY+1, its pixel (x,y) is pixel (x+minX, y+minY) of the input, and
\* it holds as many pixels of alpha > 0 as the input.
C5_TrimCropsToBoundingBox ==
    (trimCalls >= 1 /\ Visible(trimPrev) # {}) =>
        LET V == Visible(trimPrev)
            minX == SetMin({p[1] : p \in V})
            maxX == SetMax({p[1] : p \in V})
            minY == SetMin({p[2] : p \in V})
            maxY == SetMax({p[2] : p \in V})
        IN  /\ trimErr = NoError
            /\ image.w = maxX - minX + 1
            /\ image.h = maxY - minY + 1
            /\ DOMAIN image.px = Coords(image.w, image.h)
            /\ \A p \in Coords(image.w, image.h) :
                   image.px[p] = trimPrev.px[<<p[1] + minX, p[2] + minY>>]
            /\ Cardinality(Visible(image)) = Cardinality(V)

\* C5 witness: a call cropped away columns and rows on all four sides
C5_Witness ==
    /\ trimCalls = 1
    /\ trimErr = NoError
    /\ image.w = 1
    /\ image.h = 1
    /\ trimPrev.w = 3
    /\ trimPrev.h = 3
    /\ image.px[<<0, 0>>] = trimPrev.px[<<1, 1>>]

-----------------------------------------------------------------------------
(* Properties of ResizeWithAspect, checked under SpecResize *)


\* the double x is within 2^-bits of the fraction n / d, d > 0
DWithin(x, n, d, bits) ==
    LET s == IF -x.e > bits THEN -x.e ELSE bits
        left == WShiftLeft(WMul(x.m, WNat(d)), s + x.e)
        right == WShiftLeft(WNat(IF n < 0 THEN -n ELSE n), s)
        apart == IF x.neg = (n < 0) \/ left = <<>> \/ right = <<>>
                 THEN IF WCompare(left, right) >= 0 THEN WSub(left, right)
                      ELSE WSub(right, left)
                 ELSE WAdd(left, right)
    IN  WCompare(apart, WShiftLeft(WNat(d), s - bits)) <= 0

\* how near a double the code computes is to the real number of its
\* formula: the roundings of the operations add up to less than 2^-40
OffsetPrecision == 40

\* the double x is within that of the fraction q
DNear(x, q) == DWithin(x, q[1], q[2], OffsetPrecision)

\* -1, 0 or 1 as the double x is below, at or above the fraction n / d, d > 0
DCompare(x, n, d) ==
    LET xNeg == x.neg /\ x.m # <<>>
        left == IF x.e >= 0 THEN WShiftLeft(WMul(x.m, WNat(d)), x.e)
                ELSE WMul(x.m, WNat(d))
        right == IF x.e >= 0 THEN WNat(Abs(n)) ELSE WShiftLeft(WNat(Abs(n)), -x.e)
        c == WCompare(left, right)
    IN  IF xNeg # (n < 0) THEN (IF xNeg THEN -1 ELSE 1)
        ELSE IF xNeg THEN -c ELSE c

\* the integer r >= 0 is the double x rounded to nearest, an exact half to
\* the even neighbour
DRounded(r, x) ==
    /\ DCompare(x, 2 * r - 1, 2) >= 0
    /\ DCompare(x, 2 * r + 1, 2) <= 0
    /\ (DCompare(x, 2 * r - 1, 2) = 0 \/ DCompare(x, 2 * r + 1, 2) = 0) => r % 2 = 0

\* the integer r is a nearest integer to the rational q
IsNearest(r, q) == 2 * Abs(r * q[2] - q[1]) <= q[2]
\* q lies exactly half way between r and a neighbour of r
IsTie(r, q) == 2 * Abs(r * q[2] - q[1]) = q[2]
\* r is q rounded to nearest, an exact half away from zero
RoundsHalfAway(r, q) == IsNearest(r, q) /\ (IsTie(r, q) => Abs(r) * q[2] > Abs(q[1]))
\* r is q rounded to nearest, an exact half to the even neighbour
RoundsHalfEven(r, q) == IsNearest(r, q) /\ (IsTie(r, q) => r % 2 = 0)

RzDone == rzPc = "done"
RzOk == rzPc = "done" /\ rzOut.err = NoError
RzIcon == rzArgs.kind = "icon"

\* targetSize * scale
ExactLong == RMul(rzArgs.targetSize, rzArgs.scale)
\* the real-valued width and height the call aims at; width governs when W >= H
ExactW ==
    IF rzInput.w >= rzInput.h THEN ExactLong
    ELSE <<rzInput.w * ExactLong[1], rzInput.h * ExactLong[2]>>
ExactH ==
    IF rzInput.w >= rzInput.h
    THEN <<rzInput.h * ExactLong[1], rzInput.w * ExactLong[2]>>
    ELSE ExactLong
\* (canvas side - resized dimension) * anchor component
ExactPad(side, resized, anchorComponent) ==
    <<(side - resized) * anchorComponent[1], anchorComponent[2]>>
GivenAnchor ==
    IF rzArgs.anchor = NullAnchor THEN <<R(1, 2), R(1, 2)>> ELSE rzArgs.anchor

\* C6 as claimed: every integer dimension the call computes (width, height,
\* canvas side, pad offsets) is the real-valued quantity rounded to nearest,
\* an exact half away from zero.
C6_RoundsHalfAwayFromZero ==
    RzDone =>
        /\ RoundsHalfAway(rzOut.width, ExactW)
        /\ RoundsHalfAway(rzOut.height, ExactH)
        /\ (RzIcon /\ RzOk) =>
              /\ RoundsHalfAway(rzOut.canvasSize, ExactLong)
              /\ RoundsHalfAway(rzOut.padLeft,
                                ExactPad(rzOut.canvasSize, rzImage.w, GivenAnchor[1]))
              /\ RoundsHalfAway(rzOut.padTop,
                                ExactPad(rzOut.canvasSize, rzImage.h, GivenAnchor[2]))

\* the doubles of the canvas side and of a pad offset: the product of the
\* two doubles, rounded to a double
CanvasDouble == DMul(DOfRational(rzArgs.targetSize), DOfRational(rzArgs.scale))
PadDouble(side, resized, anchorComponent) ==
    DMul(DInt(side - resized), DOfRational(anchorComponent))

\* C6 as amended: every integer the call computes (the width and height it
\* asks the resampler for, the canvas side, the pad offsets) is the double
\* the code computes for the quantity rounded to nearest, an exact half to
\* the even neighbour; that double is the real-valued quantity up to the
\* rounding of the double operations; and the buffer gets the width and
\* height asked for whenever both are at least 1.
C6_RoundsHalfToEven ==
    RzDone =>
        /\ DRounded(rzOut.width, rzOut.newWidth)
        /\ DRounded(rzOut.height, rzOut.newHeight)
        /\ DNear(rzOut.newWidth, ExactW)
        /\ DNear(rzOut.newHeight, ExactH)
        /\ (RzOk /\ rzOut.width >= 1 /\ rzOut.height >= 1) =>
              (rzImage.w = rzOut.width /\ rzImage.h = rzOut.height)
        /\ (RzIcon /\ RzOk) =>
              /\ DRounded(rzOut.canvasSize, CanvasDouble)
              /\ DNear(CanvasDouble, ExactLong)
              /\ DRounded(rzOut.padLeft,
                          PadDouble(rzOut.canvasSize, rzImage.w, GivenAnchor[1]))
              /\ DNear(PadDouble(rzOut.canvasSize, rzImage.w, GivenAnchor[1]),
                       ExactPad(rzOut.canvasSize, rzImage.w, GivenAnchor[1]))
              /\ DRounded(rzOut.padTop,
                          PadDouble(rzOut.canvasSize, rzImage.h, GivenAnchor[2]))
              /\ DNear(PadDouble(rzOut.canvasSize, rzImage.h, GivenAnchor[2]),
                       ExactPad(rzOut.canvasSize, rzImage.h, GivenAnchor[2]))

\* C6 witness: a 7x9 buffer with targetSize 3 and scale 1.5: the height of
\* exactly 4.5 was rounded to 4 and the pad offset of exactly 0.5 to 0; the
\* width, 3.5 as a real number, is the double 3.4999999999999996 and was
\* rounded to 3
C6_Witness ==
    /\ RzOk
    /\ RzIcon
    /\ rzInput.w = 7 /\ rzInput.h = 9
    /\ RNorm(ExactH) = <<9, 2>>
    /\ DIs(rzOut.newHeight, 9, 2)
    /\ rzImage.h = 4
    /\ RNorm(ExactW) = <<7, 2>>
    /\ DCompare(rzOut.newWidth, 7, 2) < 0
    /\ rzImage.w = 3
    /\ IsTie(rzOut.padLeft, ExactPad(rzOut.canvasSize, rzImage.w, GivenAnchor[1]))
    /\ rzOut.padLeft = 0

\* the longer and the shorter axis of the result, and what the shorter axis aims at
LongOut == IF rzInput.w >= rzInput.h THEN rzImage.w ELSE rzImage.h
ShortOut == IF rzInput.w >= rzInput.h THEN rzImage.h ELSE rzImage.w
ExactShort == IF rzInput.w >= rzInput.h THEN ExactH ELSE ExactW

\* the axis that governs in the code, the width when W > H and the height
\* otherwise, and the other axis: what they came out as, and the double
\* the code holds for the other axis
GoverningOut == IF rzInput.w > rzInput.h THEN rzImage.w ELSE rzImage.h
OtherOut == IF rzInput.w > rzInput.h THEN rzImage.h ELSE rzImage.w
OtherDouble == IF rzInput.w > rzInput.h THEN rzOut.newHeight ELSE rzOut.newWidth
GoverningDouble == IF rzInput.w > rzInput.h THEN rzOut.newWidth ELSE rzOut.newHeight

\* the doubles x and y are both at k + 1/2 up to the rounding of the double
\* operations, and are not the same double
BesideHalf(x, y, k) ==
    /\ DNear(x, R(2 * k + 1, 2))
    /\ DNear(y, R(2 * k + 1, 2))
    /\ x # y

C7_SquareWitness ==
    /\ RzOk
    /\ rzInput.w = 11 /\ rzInput.h = 11
    /\ DIs(rzOut.newHeight, 15, 2)
    /\ DCompare(rzOut.newWidth, 15, 2) < 0
    /\ rzImage.w = 7
    /\ rzImage.h = 8

C9_AspectWithinOnePixel ==
    RzOk =>
        \/ Abs(rzImage.h * rzInput.w - rzImage.w * rzInput.h) <= rzInput.h
        \/ Abs(rzImage.w * rzInput.h - rzImage.h * rzInput.w) <= rzInput.w

\* C9 witness: a 3x2 input came out 5x3: the ratio is kept only up to rounding
C9_Witness ==
    /\ RzOk
    /\ rzArgs.kind = "picture"
    /\ rzInput.w = 3
    /\ rzInput.h = 2
    /\ rzImage.w * rzInput.h # rzImage.h * rzInput.w
    /\ rzImage.w >= 4

\* the canvas positions the resized image covers
Covered == {p \in Coords(rzOut.padded.w, rzOut.padded.h) :
               /\ p[1] >= rzOut.padLeft /\ p[1] < rzOut.padLeft + rzImage.w
               /\ p[2] >= rzOut.padTop /\ p[2] < rzOut.padTop + rzImage.h}

-----------------------------------------------------------------------------
(* Properties of ProcessTextureMultiple *)

DimensionMismatch == "InvalidOperationException: All textures must have the same dimensions."

\* the sheet has been composed: the drawing loop ran to its end
Composed == pmPc \in {"save", "saveShadow"} \/ pmSaved # <<>>

\* two pixels that render the same: equal, or both fully transparent
SamePixel(p, q) == p = q \/ (Alpha(p) = 0 /\ Alpha(q) = 0)

RECURSIVE SumWidths(_, _)
SumWidths(imgs, i) == IF i > Len(imgs) THEN 0 ELSE imgs[i].w + SumWidths(imgs, i + 1)

\* the columns [(i-1)*W, i*W) of the sheet are frame i, for the 1-based i
ColumnsAreFrame(sheet, imgs, i) ==
    LET W == imgs[1].w
        H == imgs[1].h
    IN  /\ imgs[i].w = W
        /\ imgs[i].h = H
        /\ \A c \in Coords(W, H) :
              /\ <<(i - 1) * W + c[1], c[2]>> \in Coords(sheet.w, sheet.h)
              /\ SamePixel(sheet.px[<<(i - 1) * W + c[1], c[2]>>], imgs[i].px[c])

\* C1: when the sprite sheet is composed every frame has the width and the
\* height of frame 0; frames that differ after the trim and the resize make
\* the pipeline fail with the dimension-mismatch error, and no sheet is
\* composed or saved.
C1_FramesUniformAtComposition ==
    /\ Composed => SameDimensions(images)
    /\ (pmPc \in {"compose", "save", "saveShadow", "returned"} /\ ~SameDimensions(images))
          => (pmErr = DimensionMismatch /\ spriteSheet = Null /\ pmSaved = <<>>)

\* C2: a composed sheet is as wide as the frames together (N x W) and H
\* high, and its columns [i*W, (i+1)*W) are frame i, in the order of the
\* input, no two frames overlapping.
C2_SheetIsFramesSideBySide ==
    Composed =>
        /\ spriteSheet.w = SumWidths(images, 1)
        /\ spriteSheet.w = Len(images) * images[1].w
        /\ spriteSheet.h = images[1].h
        /\ \A i \in 1 .. Len(images) : ColumnsAreFrame(spriteSheet, images, i)
        /\ \A i \in 1 .. Len(images) - 1 :
              FramePosition(images, i) + images[i].w <= FramePosition(images, i + 1)

-----------------------------------------------------------------------------
(* Properties of Program.ProcessAlignment(string) *)

\* the letters of a request, in lower case: what is left of it when case
\* and every punctuation or separator character are ignored
Letters(s) ==
    LET lower == [i \in 1 .. Len(s) |-> LowerOf(s[i])]
    IN  SelectSeq(lower, IsLower)

Mentions(s, token) == Contains(Letters(s), token)
MentionsCenter(s) == Mentions(s, tokCenter) \/ Mentions(s, tokMiddle)

Directions == {tokTop, tokLeft, tokBottom, tokRight}
Mentioned(s) == {d \in Directions : Mentions(s, d)}

EdgeMidpoint(d) ==
    CASE d = tokTop -> <<Half, Zero>>
      [] d = tokLeft -> <<Zero, Half>>
      [] d = tokBottom -> <<Half, One>>
      [] d = tokRight -> <<One, Half>>

\* the corner of a horizontal direction h and a vertical direction v
Corner(h, v) == <<EdgeMidpoint(h)[1], EdgeMidpoint(v)[2]>>

\* the option was given, its parser ran and returned an anchor
PaReturned == paPc = "done" /\ paGiven /\ paOut.err = NoError

\* C11: a request with "center" or "middle" resolves to the edge midpoint of
\* the one direction it names, to (0.5, 0.5) when it names none, and never
\* to a corner: the center rule comes before the corner and the
\* single-direction rules.
C11_CenterRuleFirst ==
    (PaReturned /\ MentionsCenter(paRequest)) =>
        LET ds == Mentioned(paRequest)
        IN  /\ \A d \in ds : ds = {d} => paOut.anchor = EdgeMidpoint(d)
            /\ ds = {} => paOut.anchor = <<Half, Half>>
            /\ paOut.anchor \in {<<Half, Half>>} \cup {EdgeMidpoint(d) : d \in ds}

\* "center" with two directions that would make a corner
C11_Witness ==
    /\ PaReturned
    /\ MentionsCenter(paRequest)
    /\ Mentioned(paRequest) = {tokTop, tokLeft}
    /\ paOut.anchor = <<Half, Zero>>

\* C12: without "center"/"middle" one direction resolves to its edge
\* midpoint, a horizontal with a vertical direction to their corner; every
\* anchor lies in {0, 0.5, 1} x {0, 0.5, 1}.
C12_DirectionsAndCorners ==
    /\ (PaReturned /\ ~MentionsCenter(paRequest)) =>
          LET ds == Mentioned(paRequest)
          IN  /\ \A d \in ds : ds = {d} => paOut.anchor = EdgeMidpoint(d)
              /\ \A h \in {tokLeft, tokRight}, v \in {tokTop, tokBottom} :
                    ds = {h, v} => paOut.anchor = Corner(h, v)
    /\ (paPc = "done" /\ paOut.err = NoError) =>
          /\ paOut.anchor[1] \in {Zero, Half, One}
          /\ paOut.anchor[2] \in {Zero, Half, One}

\* "bottom right"
C12_Witness ==
    /\ PaReturned
    /\ paRequest = tokBottom \o <<" ">> \o tokRight
    /\ paOut.anchor = <<One, One>>

\* the edits made are of the kinds in K
EditsAmong(K) == paEdits.kinds \subseteq K

\* C13 as claimed: a request and the same request with letters in another
\* case or with punctuation and separator characters inserted or removed
\* resolve alike (same anchor, or both fail).
C13_CaseAndPunctuationInsensitive ==
    (paPc = "done" /\ paGiven) => paOut = paOrigOut

\* the request holds a capital I
HasCapitalI(s) == \E i \in 1 .. Len(s) : s[i] = "I"

\* the request with a letter of no token in the place of every capital I
CapitalIForeign(s) == [i \in 1 .. Len(s) |-> IF s[i] = "I" THEN "x" ELSE s[i]]

\* C13, amended: two non-empty requests that differ only in the case of
\* letters and in hyphens and underscores resolve to the same anchor,
\* unless the culture has Turkic casing and one of them holds a capital I;
\* under such a culture a capital I is read as a letter of no token.
C13_CaseHyphenUnderscoreInsensitive ==
    /\ (paPc = "done" /\ paGiven /\ paOriginal # <<>> /\ paRequest # <<>>
           /\ EditsAmong({"case", "-", "_"})
           /\ (currentCulture = "tr-TR"
                  => (~HasCapitalI(paOriginal) /\ ~HasCapitalI(paRequest))))
          => (paOut.err = NoError /\ paOut = paOrigOut)
    /\ (paPc = "done" /\ paGiven /\ currentCulture = "tr-TR")
          => paOut = AlignmentOption(paGiven, CapitalIForeign(paRequest))

\* "top" written with another case and an underscore inside the token,
\* under Turkic casing
C13_Witness ==
    /\ paPc = "done"
    /\ currentCulture = "tr-TR"
    /\ paOriginal = tokTop
    /\ paRequest # paOriginal
    /\ paEdits.kinds = {"case", "_"}
    /\ paOut.anchor = <<Half, Zero>>

\* "bottom rIght" under Turkic casing: "right" is not found
C13_TurkicWitness ==
    /\ paPc = "done"
    /\ currentCulture = "tr-TR"
    /\ paOriginal = tokBottom \o <<" ">> \o tokRight
    /\ paRequest = tokBottom \o <<" ", "r", "I", "g", "h", "t">>
    /\ paOut.anchor = <<Half, One>>
    /\ paOrigOut.anchor = <<One, One>>

\* a request that names no token, however it is cased or punctuated
Unrecognized(s) == ~MentionsCenter(s) /\ Mentioned(s) = {}

\* C14 as claimed: every request that names no token, the empty one and
\* those of spaces or punctuation included, resolves to (0, 0) without error.
C14_UnrecognizedNeverFails ==
    (paPc = "done" /\ paGiven /\ Unrecognized(paRequest))
        => paOut = [err |-> NoError, anchor |-> <<Zero, Zero>>]

\* C14, amended: every non-empty request that names no token resolves to
\* (0, 0) without error; the empty request throws ArgumentNullException.
C14_NonEmptyUnrecognizedGivesOrigin ==
    (paPc = "done" /\ paGiven /\ Unrecognized(paRequest)) =>
        IF paRequest = <<>>
        THEN paOut.err = "ArgumentNullException"
        ELSE paOut = [err |-> NoError, anchor |-> <<Zero, Zero>>]

\* a request made of spaces only
C14_Witness ==
    /\ paPc = "done"
    /\ paGiven
    /\ paRequest # <<>>
    /\ Trim(paRequest) = <<>>
    /\ paOut = [err |-> NoError, anchor |-> <<Zero, Zero>>]

-----------------------------------------------------------------------------
(* Properties of the suggested offsets *)

OfPrinted == ofPc \in {"again", "done"}

\* the double off is the fraction q
DIsRational(off, q) == DIs(off, RNorm(q)[1], RNorm(q)[2])

\* 0.5 * (a - 0.5) * (64 - side) as a fraction: (2a - 1) * (64 - side) / 4
SuggestedOffset(a, side) ==
    RNorm(RMul(RSub(RMul(RInt(2), a), One), R(64 - side, 4)))

\* C15: the suggested offset is 0.5*(anchor.x - 0.5)*(64 - width) and
\* 0.5*(anchor.y - 0.5)*(64 - height); it is (0,0) at anchor (0.5,0.5) and
\* for a 64x64 image, and each component depends on its own axis only.
C15_SuggestedOffset ==
    /\ OfPrinted =>
          /\ DIsRational(ofPrinted.offset[1], SuggestedOffset(ofAlignment[1], ofImage.w))
          /\ DIsRational(ofPrinted.offset[2], SuggestedOffset(ofAlignment[2], ofImage.h))
          /\ (ofAlignment = <<Half, Half>> \/ (ofImage.w = 64 /\ ofImage.h = 64))
                => (DEq(ofPrinted.offset[1], DZero) /\ DEq(ofPrinted.offset[2], DZero))
    /\ ofPc = "done" =>
          /\ DEq(ofAgain.x[1], ofPrinted.offset[1])
          /\ DEq(ofAgain.y[2], ofPrinted.offset[2])

\* a 32x65 image at the bottom-left anchor: (-8, -0.25), and the same x for
\* another height and y
C15_Witness ==
    /\ ofPc = "done"
    /\ ofImage = [w |-> 32, h |-> 65]
    /\ ofAlignment = <<Zero, One>>
    /\ DIs(ofPrinted.offset[1], -8, 1)
    /\ DIs(ofPrinted.offset[2], -1, 4)
    /\ ofOther.h = 64 /\ ofOther.y = Half
    /\ DIs(ofAgain.x[1], -8, 1)

\* the fraction q rounded to three decimals
Rounded3(q) == R(RRound(RMul(q, RInt(1000))), 1000)

\* the fraction bx + round((32 - width/2)/2, 3) + width*0.04 + ox
ShadowOffsetX(imageW, shadowW, ox) ==
    RNorm(RAdd(RNorm(RAdd(RNorm(RAdd(SuggestedOffset(Zero, shadowW),
                                     RNorm(Rounded3(R(64 - imageW, 4))))),
                          R(imageW, 25))),
               ox))

\* the fraction by + shadowHeight/2 + oy*2 + 1
ShadowOffsetY(shadowH, oy) ==
    RNorm(RAdd(RNorm(RAdd(RNorm(RAdd(SuggestedOffset(One, shadowH), R(shadowH, 2))),
                          RMul(RInt(2), oy))),
               One))

\* C16: with (bx, by) the suggested offset of the shadow at anchor (0,1),
\* sx = bx + round((32 - width/2)/2, 3) + width*0.04 + imageOffset.x, to the
\* precision of the double sum, and sy = by + shadowHeight/2 +
\* imageOffset.y*2 + 1; the result is the same for an image of another
\* height with the same image offset.
C16_ShadowOffset ==
    /\ (OfPrinted /\ ofShadow # Null) =>
          LET ox == SuggestedOffset(ofAlignment[1], ofImage.w)
              oy == SuggestedOffset(ofAlignment[2], ofImage.h)
              sx == ShadowOffsetX(ofImage.w, ofShadow.w, ox)
          IN  /\ DWithin(ofPrinted.shadowOffset[1], sx[1], sx[2], OffsetPrecision)
              /\ DIsRational(ofPrinted.shadowOffset[2], ShadowOffsetY(ofShadow.h, oy))
    /\ (ofPc = "done" /\ ofShadow # Null) =>
          /\ DEq(ofAgain.shadow[1], ofPrinted.shadowOffset[1])
          /\ DEq(ofAgain.shadow[2], ofPrinted.shadowOffset[2])

\* 1.2799999999999994, the double (343597383 * 2^24 + 11408504) * 2^-52
BelowOneTwentyEight ==
    [neg |-> FALSE, m |-> WAdd(WShiftLeft(WNat(343597383), 24), WNat(11408504)),
     e |-> -52]

\* a 32x65 image at the bottom-left anchor over a 64x32 shadow: 0 + 8 + 1.28
\* - 8 in doubles is 1.2799999999999994 and not the double nearest to 1.28,
\* y is 24.5, and the same for a 32x64 image with that image offset
C16_Witness ==
    /\ ofPc = "done"
    /\ ofImage = [w |-> 32, h |-> 65]
    /\ ofAlignment = <<Zero, One>>
    /\ ofShadow = [w |-> 64, h |-> 32]
    /\ ofOther.h = 64
    /\ DEq(ofPrinted.shadowOffset[1], BelowOneTwentyEight)
    /\ ~DEq(ofPrinted.shadowOffset[1], DLiteral(32, 25))
    /\ DIs(ofPrinted.shadowOffset[2], 49, 2)
    /\ DEq(ofAgain.shadow[1], ofPrinted.shadowOffset[1])

-----------------------------------------------------------------------------
(* Properties of ProcessTextureSingle *)

\* the image of a texture file trimmed and resized to the tile, and the
\* shadow file trimmed and resized by the same ratio: what the texture, the
\* shadow and the scale alone determine
ImageFor(file, scale) ==
    ResizeWithAspect(TrimWhitespace(file).image, DInt(64), DOfRational(scale)).image

ShadowFor(file, shadow, scale) ==
    LET t == TrimWhitespace(file).image
        s == TrimWhitespace(shadow).image
        ratio == DDivInt(DInt(64), MathMax(t.w, t.h))
    IN  ResizeWithAspect(s, DMul(DInt(MathMax(s.w, s.h)), ratio),
                         DOfRational(scale)).image

\* C17: SuggestAlignment leaves the image buffer and the shadow buffer as it
\* found them, and what is saved is determined by the texture, the shadow
\* and the scale: it is the same for every alignment.
C17_SuggestLeavesBuffers ==
    /\ psSuggested # NotSuggested =>
          /\ psImage = psSuggested.image
          /\ psShadowImage = psSuggested.shadowImage
    /\ \A i \in 1 .. Len(psSaved) :
          psSaved[i].image =
             IF psSaved[i].file = "texture-processed"
             THEN ImageFor(psFile, psScale)
             ELSE ShadowFor(psFile, psShadowFile, psScale)

\* a run with a shadow at the bottom-left anchor that printed a non-zero
\* offset and saved both files
C17_Witness ==
    /\ psPc = "returned"
    /\ psAlignment = <<Zero, One>>
    /\ psSuggested # NotSuggested
    /\ ~DEq(psSuggested.offset[1], DZero)
    /\ psSuggested.shadowOffset # NullAnchor
    /\ Len(psSaved) = 2
    /\ psSaved[1].image = psSuggested.image
    /\ psSaved[2].image = psSuggested.shadowImage

-----------------------------------------------------------------------------
(* Properties of the icon atlas *)

\* the resolutions and the X positions of the four slots
SlotSides == <<64, 32, 16, 8>>
SlotLefts == <<0, 64, 96, 112>>
\* the inset of a slot of side r: min(2, r / 4)
SlotInset(r) == IF 2 <= r \div 4 THEN 2 ELSE r \div 4

\* the pixel p lies in the tile drawn by layer k
InTile(p, k) ==
    /\ p[1] >= icLayers[k].drawX /\ p[1] < icLayers[k].drawX + icLayers[k].tile.w
    /\ p[2] >= icLayers[k].drawY /\ p[2] < icLayers[k].drawY + icLayers[k].tile.h

\* C18: the atlas is 120x64; the layer of resolution R at position X is
\* inset by p = min(2, R/4), its tile is a square of side R - 2p drawn at
\* (X + p, p) and lies inside the slot [X, X+R) x [0, R); the slots are
\* disjoint and inside the atlas; nothing is drawn outside the tiles.
C18_AtlasLayout ==
    /\ icon # Null => (icon.w = 120 /\ icon.h = 64)
    /\ \A k \in 1 .. Len(icLayers) :
          LET r == SlotSides[k]
              x == SlotLefts[k]
              inset == SlotInset(r)
              layer == icLayers[k]
          IN  /\ layer.pad = inset
              /\ layer.targetSize = r - 2 * inset
              /\ layer.tile = [w |-> r - 2 * inset, h |-> r - 2 * inset]
              /\ layer.drawX = x + inset /\ layer.drawY = inset
              /\ x <= layer.drawX /\ layer.drawX + layer.tile.w <= x + r
              /\ 0 <= layer.drawY /\ layer.drawY + layer.tile.h <= r
              /\ x + r <= 120 /\ r <= 64
              /\ k > 1 => SlotLefts[k - 1] + SlotSides[k - 1] <= x
    /\ (icon # Null /\ icPc \in {"layer", "shadow"}) =>
          \A p \in Coords(icon.w, icon.h) :
              Alpha(icon.px[p]) > 0 => \E k \in 1 .. Len(icLayers) : InTile(p, k)

\* a 1x9 source: its 8x8 layer is one pixel wide, inside the last tile
C18_Witness ==
    /\ icPc = "shadow"
    /\ Len(icLayers) = 4
    /\ icTrimmed.w = 1 /\ icTrimmed.h = 9
    /\ icLayers[4].tile = [w |-> 4, h |-> 4]
    /\ \E p \in Coords(icon.w, icon.h) : InTile(p, 4) /\ Alpha(icon.px[p]) > 0
    /\ \E p \in Coords(icon.w, icon.h) : InTile(p, 4) /\ Alpha(icon.px[p]) = 0

\* the number of times the operation op is in the log
Times(op) == Cardinality({i \in 1 .. Len(icLog) : icLog[i] = op})

\* C19: the source is trimmed once; the trimmed source is the same before
\* every iteration, and every layer is the resize of a copy of it, never of
\* an earlier layer.
C19_LayersFromTrimmedSource ==
    /\ Times(<<"trim", 0>>) <= 1
    /\ icLayers # <<>> => Times(<<"trim", 0>>) = 1
    /\ icTrimmed # Null => icImage = icTrimmed
    /\ \A k \in 1 .. Len(icLayers) : icLayers[k].source = icTrimmed
    /\ (icLayers # <<>> /\ icClone # Null) =>
          icClone = IconResizeWithAspect(icTrimmed,
                                         DInt(icLayers[Len(icLayers)].targetSize),
                                         DOne, <<Half, Half>>).padded

\* before the third iteration, for a 3x3 file that trims to 3x1
C19_Witness ==
    /\ icPc = "layer"
    /\ Len(icLayers) = 2
    /\ icFile.h = 3
    /\ icTrimmed = [w |-> 3, h |-> 1,
                    px |-> [p \in Coords(3, 1) |-> icFile.px[<<p[1], 1>>]]]
    /\ icImage = icTrimmed
    /\ icClone.w = 28

\* the places of the log that hold the operation op
Places(op) == {i \in 1 .. Len(icLog) : icLog[i] = op}

\* C20: the drop shadow is applied once, after the four layers are drawn
\* and before the atlas is saved; no layer is drawn after it.
C20_ShadowOnceAfterLayers ==
    /\ Times(<<"shadow", 0>>) <= 1
    /\ \A s \in Places(<<"shadow", 0>>) :
          /\ \A i \in 0 .. 3 : \E l \in Places(<<"layer", i>>) : l < s
          /\ \A i \in 0 .. 3 : \A l \in Places(<<"layer", i>>) : l < s
    /\ \A v \in Places(<<"save", 0>>) : \E s \in Places(<<"shadow", 0>>) : s < v
    /\ icSaved # <<>> => (Len(icSaved) = 1 /\ icSaved[1].image = icon)

\* a whole run: the four layers, the shadow, the save
C20_Witness ==
    /\ icPc = "returned"
    /\ icLog = <<<<"load", 0>>, <<"trim", 0>>, <<"create", 0>>, <<"layer", 0>>,
                 <<"layer", 1>>, <<"layer", 2>>, <<"layer", 3>>, <<"shadow", 0>>,
                 <<"save", 0>>>>
    /\ Len(icSaved) = 1

-----------------------------------------------------------------------------
(* Properties of ApplyDropShadow, checked under SpecShadow *)

\* the shadow position of the source position p
ShadowPosition(p) == <<p[1] + dsArgs.offsetX, p[2] + dsArgs.offsetY>>

\* the positions of the buffer handed to ApplyDropShadow
DsCoords == Coords(dsInput.w, dsInput.h)

\* the first pair of loops is over
DsLayerBuilt == dsPc \in {"blur", "composite", "copy", "done"}

\* C21: ApplyDropShadow keeps the width and the height of the buffer and
\* indexes no buffer outside [0,W) x [0,H); a shadow position outside the
\* buffer is discarded, for offsets of either sign.
C21_ShadowStaysInBuffer ==
    /\ dsPc # "thrown"
    /\ dsImage.w = dsInput.w /\ dsImage.h = dsInput.h
    /\ DOMAIN dsImage.px = DsCoords
    /\ dsLayer # Null =>
          /\ dsLayer.w = dsInput.w /\ dsLayer.h = dsInput.h
          /\ DOMAIN dsLayer.px = DsCoords
    /\ \A t \in dsTouched : t[2] \in DsCoords
    /\ \A k \in 1 .. Len(dsWrites) :
          /\ dsWrites[k].to = ShadowPosition(dsWrites[k].from)
          /\ dsWrites[k].to \in DsCoords
    /\ DsLayerBuilt =>
          \A p \in DsCoords :
              ShadowPosition(p) \notin DsCoords =>
                  \A k \in 1 .. Len(dsWrites) : dsWrites[k].from # p

\* a run with a negative and a positive offset that discards the shadow of
\* one visible pixel and keeps that of another
C21_Witness ==
    /\ dsPc = "done"
    /\ dsArgs.offsetX < 0 /\ dsArgs.offsetY > 0
    /\ dsWrites # <<>>
    /\ \E p \in DsCoords : Alpha(dsInput.px[p]) > 0 /\ ShadowPosition(p) \notin DsCoords

\* the source position whose shadow falls on q
ShadowSource(q) == <<q[1] - dsArgs.offsetX, q[2] - dsArgs.offsetY>>

\* q has a source inside the buffer that is not fully transparent
HasShadowSource(q) ==
    /\ ShadowSource(q) \in DsCoords
    /\ Alpha(dsInput.px[ShadowSource(q)]) > 0

\* C22: with blurRadius = 0, after the call a pixel that was fully opaque
\* keeps its colour, a position that was fully transparent and has a source
\* of alpha > 0 inside the buffer holds the shadow colour, and a position
\* that was fully transparent and has no such source is fully transparent.
C22_NoBlurPixels ==
    (dsPc = "done" /\ dsArgs.blurRadius = 0) =>
        \A q \in DsCoords :
            /\ Alpha(dsInput.px[q]) = 255 => dsImage.px[q] = dsInput.px[q]
            /\ (Alpha(dsInput.px[q]) = 0 /\ HasShadowSource(q)) =>
                  Colour(dsImage.px[q]) = Colour(dsArgs.shadowColor)
            /\ (Alpha(dsInput.px[q]) = 0 /\ ~HasShadowSource(q)) =>
                  Alpha(dsImage.px[q]) = 0

\* C26: the shadow written for a source pixel of alpha a > 0 has the colour
\* of shadowColor and the alpha shadowColor.A * a / 255, and every value
\* computed for the shadow layer is in [0,255] before it is stored in a byte.
C26_ShadowColourAndAlpha ==
    \A k \in 1 .. Len(dsWrites) :
        /\ dsWrites[k].alpha > 0
        /\ Colour(dsWrites[k].stored) = Colour(dsArgs.shadowColor)
        /\ Alpha(dsWrites[k].stored) =
              (Alpha(dsArgs.shadowColor) * dsWrites[k].alpha) \div 255
        /\ dsWrites[k].values[1] \in 0 .. 255
        /\ dsWrites[k].values[2] \in 0 .. 255

\* C27: each position of the shadow layer is written at most once, the
\* pixel there at the time of a write is fully transparent, and the blend
\* stores what a plain overwrite with col would store.
C27_BlendIsOverwrite ==
    /\ \A j, k \in 1 .. Len(dsWrites) : dsWrites[j].to = dsWrites[k].to => j = k
    /\ \A k \in 1 .. Len(dsWrites) :
          /\ dsWrites[k].existing = Transparent
          /\ dsWrites[k].stored = dsWrites[k].col

-----------------------------------------------------------------------------
(* Properties of Program.Process, checked under SpecProcess *)

\* no buffer was loaded, trimmed, resized or saved by either pipeline
NoPixelWork == PsIdle /\ PmIdle

\* --shadow is given without a value and the inferred file does not exist
InferredShadowMissing ==
    /\ prShadowOption.given /\ prShadowOption.file = Null
    /\ ShadowPath(prTextures[1]) \notin prExists

\* one of the numbered files of the one texture does not exist
VariantMissing ==
    /\ prVariants > 1 /\ Len(prTextures) = 1
    /\ \E i \in 1 .. prVariants : VariantPath(prTextures[1], i) \notin prExists

FileNotFound ==
    {"FileNotFoundException: Shadow file not found",
     "FileNotFoundException: Variant file not found"}

\* C24: a missing companion file, the inferred shadow or a numbered variant,
\* is reported before any buffer is loaded, trimmed, resized or saved.
C24_MissingCompanionBeforePixelWork ==
    /\ (InferredShadowMissing \/ VariantMissing) =>
          /\ NoPixelWork
          /\ prPc \in {"validate", "shadow", "variants", "rejected", "thrown"}
          /\ prPc = "thrown" => prErr \in FileNotFound
    /\ (InferredShadowMissing /\ prPc = "thrown") =>
          prErr = "FileNotFoundException: Shadow file not found"
    /\ prErr \in FileNotFound => (prPc = "thrown" /\ NoPixelWork)

\* the third of three variants is missing, the first two and the shadow exist
C24_Witness ==
    /\ prPc = "thrown"
    /\ prErr = "FileNotFoundException: Variant file not found"
    /\ prVariants = 3
    /\ prShadowOption.given /\ prShadow \in prExists
    /\ VariantPath(prTextures[1], 2) \in prExists
    /\ VariantPath(prTextures[1], 3) \notin prExists
    /\ NoPixelWork

\* the name of file without its extension ends with the number i
NumberedAs(file, i) ==
    LET baseName == GetFileNameWithoutExtension(file.name)
        n == IntToString(i)
    IN  /\ Len(baseName) > Len(n)
        /\ SubSeq(baseName, Len(baseName) - Len(n) + 1, Len(baseName)) = n
        /\ baseName[Len(baseName) - Len(n)] \notin {"0", "1", "2", "3", "4", "5", "6", "7", "8", "9"}

\* the name of file without its extension and without i's digits
Unnumbered(file, i) ==
    SubSeq(GetFileNameWithoutExtension(file.name), 1,
           Len(GetFileNameWithoutExtension(file.name)) - Len(IntToString(i)))

\* C25: with N > 1 variants any number of textures but one is rejected
\* with an error; the one texture is expanded into N files numbered 1..N in
\* increasing order, which are the frames in that order; with N = 1 the
\* list of textures is used as it is.
C25_VariantsExpansion ==
    /\ (prVariants > 1 /\ Len(prTextures) # 1 /\ prPc # "validate") =>
          (prPc = "rejected" /\ prErr # NoError /\ NoPixelWork)
    /\ (prVariants > 1 /\ Len(prTextures) = 1 /\ prPc \in {"dispatch", "called"}) =>
          /\ Len(prList) = prVariants
          /\ \A i \in 1 .. Len(prList) :
                /\ NumberedAs(prList[i], i)
                /\ Unnumbered(prList[i], i) = Unnumbered(prList[1], 1)
                /\ prList[i].directory = prTextures[1].directory
                /\ GetExtension(prList[i].name) = GetExtension(prTextures[1].name)
                /\ prList[i] \in prExists
          /\ prPc = "called" =>
                pmFiles = [i \in 1 .. prVariants |-> Content(prList[i])]
    /\ (prVariants = 1 /\ prPc \in {"dispatch", "called"}) => prList = prTextures

\* three variants expanded and made into a sheet
C25_Witness ==
    /\ prVariants = 3
    /\ prPc = "called"
    /\ Len(prTextures) = 1
    /\ Len(prList) = 3
    /\ pmPc = "returned"
    /\ Len(images) = 3
    /\ pmSaved # <<>>

\* the frames that show nothing
EmptyFrames == {i \in 1 .. Len(pmFiles) : Visible(pmFiles[i]) = {}}

\* ProcessTextureMultiple has returned or thrown
PmEnded == pmPc \in {"returned", "thrown"}

\* C23: an empty-image failure in one image of an invocation does not stop
\* the other images from being processed, and written outputs stay valid:
\* when ProcessTextureMultiple has ended on frames of equal dimensions of
\* which some show nothing, every other frame that can be trimmed and
\* resized has been.
C23_SiblingsContinue ==
    (PmEnded /\ SameDimensions(pmFiles) /\ EmptyFrames # {}) =>
        \A j \in (1 .. Len(pmFiles)) \ EmptyFrames :
            ProcessOne(pmFiles[j], pmScale).err = NoError =>
                images[j] = ProcessOne(pmFiles[j], pmScale).image

\* the names of the files written, in order
SavedNames(saved) == [i \in 1 .. Len(saved) |-> saved[i].file]

\* C28: in both picture paths an output is written only after every image
\* and the shadow were loaded, checked, trimmed and resized and the sheet
\* composed without a failure; a run that fails has written nothing; the
\* main output is written first, the shadow output after it.
C28_NoOutputOnFailure ==
    /\ psErr # NoError => psSaved = <<>>
    /\ pmErr # NoError => pmSaved = <<>>
    /\ psSaved # <<>> =>
          /\ psImage = ImageFor(psFile, psScale)
          /\ TrimWhitespace(psFile).err = NoError
          /\ ResizeWithAspect(TrimWhitespace(psFile).image, DInt(64),
                              DOfRational(psScale)).err = NoError
          /\ psShadowFile # Null =>
                /\ psShadowImage = ShadowFor(psFile, psShadowFile, psScale)
                /\ TrimWhitespace(psShadowFile).err = NoError
          /\ SavedNames(psSaved) \in
                {<<"texture-processed">>, <<"texture-processed", "shadow-processed">>}
    /\ pmSaved # <<>> =>
          /\ SameDimensions(pmFiles)
          /\ \A i \in 1 .. Len(pmFiles) :
                /\ ProcessOne(pmFiles[i], pmScale).err = NoError
                /\ images[i] = ProcessOne(pmFiles[i], pmScale).image
          /\ pmShadowFile # Null =>
                /\ shadowImage = ShadowFor(pmFiles[1], pmShadowFile, pmScale)
                /\ TrimWhitespace(pmShadowFile).err = NoError
          /\ spriteSheet # Null
          /\ SavedNames(pmSaved) \in
                {<<"texture-processed">>, <<"texture-processed", "shadow-processed">>}
    /\ (psPc = "returned" /\ psShadowFile # Null) => Len(psSaved) = 2
    /\ (pmPc = "returned" /\ pmShadowFile # Null) => Len(pmSaved) = 2

\* a sheet whose composition failed after every frame and the shadow were
\* processed: nothing was written
C28_Witness ==
    /\ pmPc = "thrown"
    /\ pmErr = "ImageProcessingException"
    /\ pmShadowFile # Null
    /\ shadowImage = ShadowFor(pmFiles[1], pmShadowFile, pmScale)
    /\ pmSaved = <<>>

\* the target size the claim gives for the shadow, as a fraction: the longer
\* side of the trimmed shadow times 64 over the longer side of the trimmed
\* image
ClaimedShadowTarget(file, shadow) ==
    LET t == TrimWhitespace(file).image
        u == TrimWhitespace(shadow).image
    IN  R(MathMax(u.w, u.h) * 64, MathMax(t.w, t.h))

\* the ratio of the claim, 64 over the longer side of the trimmed image
ClaimedRatio(file) ==
    R(64, MathMax(TrimWhitespace(file).image.w, TrimWhitespace(file).image.h))

\* the longer side of the trimmed shadow times the double ratio
TargetAt(shadow, ratio) ==
    DMul(DInt(MathMax(TrimWhitespace(shadow).image.w, TrimWhitespace(shadow).image.h)),
         ratio)

\* ratio is the ratio of the claim and gives the target size of the claim,
\* both up to the rounding of the double operations, and resized is the
\* trimmed shadow resized to that target size with the scale applied
ShadowAsClaimed(file, shadow, scale, ratio, resized) ==
    /\ DNear(ratio, ClaimedRatio(file))
    /\ DNear(TargetAt(shadow, ratio), ClaimedShadowTarget(file, shadow))
    /\ resized = ResizeWithAspect(TrimWhitespace(shadow).image,
                                  TargetAt(shadow, ratio), DOfRational(scale)).image

\* C29: the shadow is resized to max(shadow sides) * 64 / max(image sides),
\* the sides taken after trimming, times the scale; the multi-texture path
\* takes the image sides from frame 0 and gives what the single-texture
\* path gives for frame 0 and the same shadow.
C29_ShadowRatio ==
    /\ (psShadowFile # Null /\ psPc \in {"suggest", "save", "saveShadow", "returned"}) =>
          ShadowAsClaimed(psFile, psShadowFile, psScale, psImageScale, psShadowImage)
    /\ (pmShadowFile # Null /\ pmPc \in {"compose", "save", "saveShadow", "returned"}) =>
          ShadowAsClaimed(pmFiles[1], pmShadowFile, pmScale, imageScale, shadowImage)
    /\ \A i \in 1 .. Len(pmSaved) :
          pmSaved[i].file = "shadow-processed" =>
              pmSaved[i].image = ShadowFor(pmFiles[1], pmShadowFile, pmScale)

\* a sheet whose frame 0 trims from 4x1 to 3x1 and is resized to 2x1, with
\* a shadow, written: the ratio is the double 21.333333333333332, just
\* below 64/3
C29_Witness ==
    /\ pmPc = "returned"
    /\ Len(pmSaved) = 2
    /\ pmFiles[1].w = 4
    /\ TrimWhitespace(pmFiles[1]).image.w = 3
    /\ DCompare(imageScale, 64, 3) < 0
    /\ images[1].w = 2
    /\ pmSaved[2].image = shadowImage

\* C30: every buffer a run loaded or created is released when the run
\* returns or throws: the frames and the shadow of ProcessTextureMultiple,
\* image and shadowImage of ProcessTextureSingle, and in the icon pipeline
\* image, icon and each clone, a clone once and after it was drawn.
C30_BuffersReleased ==
    /\ PmEnded =>
          /\ \A i \in 1 .. Len(images) : <<"image", i>> \in pmDisposed
          /\ shadowImage # Null => <<"shadowImage", 0>> \in pmDisposed
          /\ spriteSheet # Null => <<"spriteSheet", 0>> \in pmDisposed
    /\ psPc \in {"returned", "thrown"} =>
          /\ "image" \in psDisposed
          /\ psShadowImage # Null => "shadowImage" \in psDisposed
    /\ icPc \in {"returned", "thrown"} =>
          /\ \A i \in 0 .. Len(icLayers) - 1 :
                /\ Cardinality({k \in 1 .. Len(icDisposed) : icDisposed[k] = <<"clone", i>>}) = 1
                /\ Cardinality({k \in 1 .. Len(icDisposed) : icDisposed[k] = <<"padded", i>>}) = 1
          /\ \E k \in 1 .. Len(icDisposed) : icDisposed[k] = <<"image", 0>>
          /\ icon # Null => \E k \in 1 .. Len(icDisposed) : icDisposed[k] = <<"icon", 0>>

=============================================================================
